---------------------------- MODULE Spec2Model ----------------------------
(***************************************************************************)
(* Terminal multiplexer (zerocore-ai/tool-library, terminal package).      *)
(*                                                                         *)
(* One module, several specifications, one per subsystem:                  *)
(*   SpecSession  one TerminalSession: child, PTY reader thread, reader    *)
(*                channel, drain_reader / drain_reader_async / terminate   *)
(*   SpecManager  SessionManager: session map, its RwLock, the sessions'   *)
(*                Arcs and locks, socket files, request handlers           *)
(*   SpecAttach   SocketServer: accept loop, handle_client, broadcast      *)
(*   SpecWriter   the PTY writer mutex shared by send and socket input     *)
(*   SpecRead     handle_read and the wait_ready loop of create: drains,   *)
(*                deadlines, prompt and idle detection, the output tracker *)
(*   SpecReadLive SpecRead with the handler and the clock scheduled        *)
(*   SpecProtocol read_message and Message::decode on one connection       *)
(*   SpecEmulator ScreenPerformer on one ScreenBuffer and ScrollbackBuffer  *)
(*   SpecScrollback  push_line on one ScrollbackBuffer                      *)
(*   SpecAnsi     strip_ansi on one string                                  *)
(*   SpecPrompt   PromptDetector::detect on one content                     *)
(*   SpecKeys     KeyInput::encode on one key                               *)
(*   SpecCodec    Message::encode, then Message::decode on its frame        *)
(*   SpecAttachLive   SpecAttach with server tasks that go on               *)
(*   SpecStream   the bytes handle_client and its output forwarder write   *)
(*                to one client                                             *)
(*   SpecLockingLive  SpecLocking with fair locks and handlers that go on   *)
(*   SpecLocking  the map's RwLock and the sessions' Mutexes as the request *)
(*                handlers take them, and the drains under a session lock  *)
(* Every specification fixes the variables of the other subsystems.        *)
(***************************************************************************)
EXTENDS Integers, Sequences, FiniteSets, TLC

\* Option::None for exit codes, map slots, lock holders.
None == -1

(***************************************************************************)
(* Bounds of the model.                                                    *)
(***************************************************************************)
\* chunks the child writes to the PTY in one run
MaxChunks == 4
\* capacity of the reader channel; the code's mpsc::channel(1024), scaled down
\* so that a full channel is reached
ChannelCapacity == 2
\* exit codes are 0..MaxExitCode
MaxExitCode == 1

\* send requests in flight at once
NumSenders == 2
\* bytes of one write's payload
PayloadLen == 2
\* Input and Resize frames the attach clients send in one run
MaxSocketInputs == 2

\* chunks the session broadcasts to the attach clients in one run
MaxBroadcasts == 2
\* capacity of the broadcast channel; the code's broadcast::channel(1024),
\* scaled down so that a receiver lags
BroadcastCapacity == 1
\* connections the server serves in one run
NumConns == 3
\* the code's MAX_CLIENTS = 10, scaled down so that a connection is rejected
MAX_CLIENTS == 2

\* distinct values generate_session_id returns in one run
NumIds == 2
\* sessions constructed in one run
MaxObjs == 2
\* request handlers running at once
NumTasks == 2
\* GlobalConfig.max_sessions (default 10), scaled down so that the ceiling is
\* reached
max_sessions == 1

\* chunks the child writes while reads are modelled
MaxOut == 2
\* Input frames the attach clients send while reads are modelled
MaxSockIn == 1
\* the clock of a request stops here
MaxTime == 3
\* the timeout_ms / ready_timeout_ms a request carries, when it carries one
TimeoutMs == 3
\* the wait_idle_ms a request carries, when it carries one
WaitIdleMs == 3
\* the read loop's sleep of 10 ms, in the model's units
ReadSleepMs == 2
\* the wait_ready loop's sleep of 50 ms, in the model's units
ReadySleepMs == 3
\* handle_read_internal: timeout_ms.max(1)
MinTimeoutMs == 1

\* bytes the peer of a connection sends in one run
MaxStream == 6
\* the values a byte of the stream takes: 0 (no message type), 1, 2 and 3
\* (Output, Input, Resize; as a byte of the length: 1 gives a payload of one
\* byte or, in the top place, of MAX_PAYLOAD_SIZE; 2 in the top place gives
\* a length over the limit)
MaxByte == 3

\* a screen has 1 or MaxRows rows
MaxRows == 2
\* a screen has 1 or MaxCols columns
MaxCols == 2
\* callbacks the VT parser makes on the performer in one run
MaxFeed == 4
\* the numeric parameters of a CSI sequence are 0..MaxParam or the parser's
\* ceiling u16::MAX
MaxParam == 1
\* GlobalConfig.scrollback_limit (default 10000): MaxLimit for a terminal,
\* 0..MaxLimit for a scrollback buffer on its own
MaxLimit == 2
\* lines pushed to a scrollback buffer in one run
MaxPushes == 5
\* characters of the string strip_ansi or detect is called with
MaxText == 4
\* bytes of the payload of an Output or Input message, and characters of
\* the screen of an Info message, that is encoded
MaxPayload == 2
\* bytes of one frame on the stream to a client (header and payload), scaled
\* down
FrameLen == 2
\* chunks broadcast while one client is attached
MaxStreamOutputs == 2
\* request handlers running at once while the locks are modelled
NumHandlers == 2
\* sessions created in one run while the locks are modelled
NumLockSessions == 1
\* chunks waiting in the reader channel of one session
MaxQueued == 1

ExitCodes == 0..MaxExitCode

VARIABLES
    \* ---- SpecSession
    child,      \* the child process: st, code, self (exited by itself), produced
    wire,       \* the chunks the reader thread has read from the PTY, in order
    reader,     \* the reader thread: st, pending message, shutdown flag,
                \* and sent, the messages it has put on the channel (history)
    chan,       \* the reader channel (mpsc, bounded)
    sess,       \* TerminalSession / TerminalState: exited, exit_code, error, fed, tracked
    h,          \* the handler that holds the session: pc, msgs, async, eofHandled, dropped
    \* ---- SpecWriter
    wlock,      \* PtySession.writer, the mutex: its holder or None
    ptyIn,      \* the bytes that reached the PTY, in order: <<write, index>>
    snd,        \* handle_send's blocking write, per send request: pc, pos
    inq,        \* the socket input channel (mpsc): SocketInput in flight
    drn,        \* drain_socket_input: pc, cur, pos, waited
    \* ---- SpecAttach
    bcast,      \* every chunk sent on the broadcast channel, in order
    cl,         \* per served connection: pc, fwd, next, subAt, early, frames, fail
    srv,        \* the accept loop of the socket server: "running" or "stopped"
    \* ---- SpecManager
    sessions,   \* SessionManager.sessions, the map: id -> session or None
    obj,        \* the sessions ever constructed: st, id, exited, sock
    sockFile,   \* per socket path (one per id): the session that bound it, or None
    mapW,       \* the map's RwLock: the handler that holds it for writing, or None
    mapR,       \* the map's RwLock: the handlers that hold it for reading
    slock,      \* per session, its Mutex: the handler that holds it, or None
    task,       \* per request handler: pc, id, obj (the Arc it holds), todo, rm
    hist,       \* what has returned so far: destroyed, destroyedId, destroyOk
    \* ---- SpecRead
    cout,       \* the child's output: chunks produced, ended
    rchan,      \* the reader channel: chunk kinds and Eof in flight
    term,       \* TerminalState: tracker (bytes), exited; since: the bytes
                \* processed after the last take or clear (history)
    sin,        \* socket input: queued SocketInput::Data, sent; room in the PTY
    rd,         \* the read / wait_ready handler that holds the session
    \* ---- SpecProtocol
    peer,       \* the peer's end of a connection: unread bytes, bytes sent, closed
    rm,         \* read_message on that connection: pc, header, len, payload, eof, result
    \* ---- SpecEmulator
    screen,     \* TerminalState.screen, the ScreenBuffer
    scrollback, \* TerminalState.scrollback, the ScrollbackBuffer: lines, max_lines
    emu,        \* the run of the performer: fed (callbacks so far), panicked,
                \* last (the last callback), alt_scrolled (history)
    \* ---- SpecScrollback
    sbuf,       \* one ScrollbackBuffer: lines, max_lines
    pushed,     \* every line handed to push_line, in order (history)
    \* ---- SpecAnsi, SpecPrompt, SpecKeys
    strip,      \* a call of strip_ansi: input, output, output stripped again
    det,        \* a call of PromptDetector::detect: content, detected
    enc,        \* a call of KeyInput::encode: the KeyInput and the result
    cod,        \* a call of Message::encode and of Message::decode on its
                \* result: the message, the frame, the decoded message
    \* ---- SpecLocking
    lmap,       \* SessionManager.sessions: ids (the ids in the map), made (the
                \* ids ever inserted), w (the writer of the RwLock or None),
                \* r (its readers)
    lsess,      \* per session: holder (of its Mutex, or None), queued (chunks
                \* in the reader channel), mid (process_output is under way
                \* on a chunk), child ("running" or "dead")
    hd,         \* per request handler: pc, id, todo, rm
    torn,       \* a handler has read a session's state while a chunk was
                \* being processed (history)
    \* ---- SpecStream
    hc          \* handle_client for one client after the Info frame: rx (the
                \* chunks in output_rx), made, task (the output forwarder),
                \* cur, wpos, aborted, pc (the handler), cpos, writer (the
                \* holder of the writer Mutex), broken, out (the bytes the
                \* client's end has been sent, <<frame type, chunk, index>>)

sessionVars == <<child, wire, reader, chan, sess, h>>
writerVars == <<wlock, ptyIn, snd, inq, drn>>

attachVars == <<bcast, cl, srv>>

managerVars == <<sessions, obj, sockFile, mapW, mapR, slock, task, hist>>

readVars == <<cout, rchan, term, sin, rd>>

protoVars == <<peer, rm>>

emulatorVars == <<screen, scrollback, emu>>

scrollbackVars == <<sbuf, pushed>>

callVars == <<strip, det, enc, cod>>

lockingVars == <<lmap, lsess, hd, torn>>

streamVars == <<hc>>

terminalVars == <<emulatorVars, scrollbackVars, callVars, lockingVars,
    streamVars>>

vars == <<sessionVars, writerVars, attachVars, managerVars, readVars, protoVars,
          terminalVars>>

\* what the actions of one subsystem leave alone
NotSession == <<writerVars, attachVars, managerVars, readVars, protoVars,
    terminalVars>>
NotWriter == <<sessionVars, attachVars, managerVars, readVars, protoVars,
    terminalVars>>
NotAttach == <<sessionVars, writerVars, managerVars, readVars, protoVars,
    terminalVars>>
NotManager == <<sessionVars, writerVars, attachVars, readVars, protoVars,
    terminalVars>>
NotRead == <<sessionVars, writerVars, attachVars, managerVars, protoVars,
    terminalVars>>
NotProto == <<sessionVars, writerVars, attachVars, managerVars, readVars,
    terminalVars>>
NotTerminal == <<sessionVars, writerVars, attachVars, managerVars, readVars,
    protoVars>>
NotEmulator == <<NotTerminal, scrollbackVars, callVars, lockingVars, streamVars>>
NotScrollback == <<NotTerminal, emulatorVars, callVars, lockingVars, streamVars>>
NotAnsi == <<NotTerminal, emulatorVars, scrollbackVars, det, enc, cod,
    lockingVars, streamVars>>
NotPrompt == <<NotTerminal, emulatorVars, scrollbackVars, strip, enc, cod,
    lockingVars, streamVars>>
NotKeys == <<NotTerminal, emulatorVars, scrollbackVars, strip, det, cod,
    lockingVars, streamVars>>
NotCodec == <<NotTerminal, emulatorVars, scrollbackVars, strip, det, enc,
    lockingVars, streamVars>>
NotLocking == <<NotTerminal, emulatorVars, scrollbackVars, callVars, streamVars>>
NotStream == <<NotTerminal, emulatorVars, scrollbackVars, callVars, lockingVars>>

(***************************************************************************)
(* Helpers on sequences.                                                   *)
(***************************************************************************)
IsPrefix(s, t) == Len(s) <= Len(t) /\ \A i \in 1..Len(s) : s[i] = t[i]

RECURSIVE IsSubseq(_, _)
IsSubseq(s, t) ==
    IF s = <<>> THEN TRUE
    ELSE IF t = <<>> THEN FALSE
    ELSE IF Head(s) = Head(t) THEN IsSubseq(Tail(s), Tail(t))
    ELSE IsSubseq(s, Tail(t))

Max(a, b) == IF a >= b THEN a ELSE b

(***************************************************************************)
(* SpecSession: reader.rs, session.rs, state.rs, pty/session.rs            *)
(***************************************************************************)
\* ReaderMessage
Data(k) == [type |-> "Data", chunk |-> k]
Eof == [type |-> "Eof", chunk |-> 0]
Error == [type |-> "Error", chunk |-> 0]

\* PtySession::exit_code: child.try_wait(), non-blocking. The status is there
\* only once the child can be reaped.
exit_code(c) == IF c.st = "exited" THEN c.code ELSE None

\* TerminalState::set_exited
set_exited(s, code) == [s EXCEPT !.exited = TRUE, !.exit_code = code]

\* TerminalState::process_output: tracker.append, then every byte to the parser
process_output(s, k) == [s EXCEPT !.tracked = Append(@, k), !.fed = Append(@, k)]

\* TerminalSession::is_healthy
is_healthy(s) == ~s.error /\ ~s.exited

\* one arm of the match in drain_reader / drain_reader_async
HandleMsg(s, m, c) ==
    CASE m.type = "Data" -> process_output(s, m.chunk)
      [] m.type = "Error" -> [s EXCEPT !.error = TRUE]
      [] m.type = "Eof" -> set_exited(s, exit_code(c))

\* a plausible slip: exited follows the outcome of the last terminate
terminate_mark_bug(s, ok, code) ==
    IF ok THEN set_exited(s, code) ELSE [s EXCEPT !.exited = FALSE]

\* TerminalSession::terminate, the marking: only a successful terminate marks
terminate_mark(s, ok, code) ==
    IF ok THEN set_exited(s, code) ELSE s

InitSession ==
    /\ child = [st |-> "running", code |-> None, self |-> FALSE, produced |-> 0]
    /\ wire = <<>>
    /\ reader = [st |-> "loop", pending |-> Eof, shutdown |-> FALSE,
                 blocked |-> FALSE, sent |-> <<>>]
    /\ chan = <<>>
    /\ sess = [exited |-> FALSE, exit_code |-> None, error |-> FALSE,
               fed |-> <<>>, tracked |-> <<>>]
    /\ h = [pc |-> "idle", msgs |-> <<>>, async |-> FALSE,
            eofHandled |-> FALSE, dropped |-> FALSE]

\* the child writes one more chunk to the PTY
ChildWrite ==
    /\ child.st = "running"
    /\ child.produced < MaxChunks
    /\ child' = [child EXCEPT !.produced = @ + 1]
    /\ UNCHANGED <<NotSession, wire, reader, chan, sess, h>>

\* the child exits by itself with code k: its side of the PTY closes first,
\* its exit status can be collected only later (ChildReapable)
ChildExit(k) ==
    /\ child.st = "running"
    /\ child' = [child EXCEPT !.st = "closed", !.code = k, !.self = TRUE]
    /\ UNCHANGED <<NotSession, wire, reader, chan, sess, h>>

ChildReapable ==
    /\ child.st = "closed"
    /\ child' = [child EXCEPT !.st = "exited"]
    /\ UNCHANGED <<NotSession, wire, reader, chan, sess, h>>

\* reader thread, pty_reader.read: Ok(n) or Ok(0)
ReaderRead ==
    /\ reader.st = "loop"
    /\ ~reader.shutdown
    /\ \/ /\ Len(wire) < child.produced
          /\ wire' = Append(wire, Len(wire) + 1)
          /\ reader' = [reader EXCEPT !.st = "sending", !.pending = Data(Len(wire) + 1)]
       \/ /\ Len(wire) = child.produced
          /\ child.st # "running"
          /\ wire' = wire
          /\ reader' = [reader EXCEPT !.st = "sending", !.pending = Eof]
    /\ UNCHANGED <<NotSession, child, chan, sess, h>>

\* reader thread, pty_reader.read: a fatal error
ReaderReadError ==
    /\ reader.st = "loop"
    /\ ~reader.shutdown
    /\ reader' = [reader EXCEPT !.st = "sending", !.pending = Error]
    /\ UNCHANGED <<NotSession, child, wire, chan, sess, h>>

\* reader thread, top of the loop: the shutdown flag is set
ReaderShutdown ==
    /\ reader.st = "loop"
    /\ reader.shutdown
    /\ reader' = [reader EXCEPT !.st = "done"]
    /\ UNCHANGED <<NotSession, child, wire, chan, sess, h>>

\* reader thread, after a send that succeeded: the loop goes on after Data,
\* the thread breaks after Eof or Error; it goes on after all, in the mutant
after_send_continue(m) == "loop"
after_send(m) == IF m.type = "Data" THEN "loop" ELSE "done"

\* a send that does not wait for room: the message is lost when the channel is full
ReaderSendLossy ==
    /\ reader.st = "sending"
    /\ chan' = IF Len(chan) < ChannelCapacity /\ ~h.dropped
               THEN Append(chan, reader.pending) ELSE chan
    /\ reader' = [reader EXCEPT
                    !.st = IF h.dropped THEN "done" ELSE after_send(reader.pending),
                    !.blocked = @ \/ Len(chan) >= ChannelCapacity,
                    !.sent = IF Len(chan) < ChannelCapacity /\ ~h.dropped
                             THEN Append(@, reader.pending) ELSE @]
    /\ UNCHANGED <<NotSession, child, wire, sess, h>>

\* reader thread, tx.blocking_send: waits while the channel is full, fails
\* once the receiver is dropped
ReaderSend ==
    /\ reader.st = "sending"
    /\ \/ /\ h.dropped
          /\ chan' = chan
          /\ reader' = [reader EXCEPT !.st = "done"]
       \/ /\ ~h.dropped
          /\ Len(chan) < ChannelCapacity
          /\ chan' = Append(chan, reader.pending)
          /\ reader' = [reader EXCEPT !.st = after_send(reader.pending),
                                      !.sent = Append(@, reader.pending)]
    /\ UNCHANGED <<NotSession, child, wire, sess, h>>

\* the reader thread finds the channel full and waits in blocking_send
ReaderBlocked ==
    /\ reader.st = "sending"
    /\ ~h.dropped
    /\ Len(chan) >= ChannelCapacity
    /\ ~reader.blocked
    /\ reader' = [reader EXCEPT !.blocked = TRUE]
    /\ UNCHANGED <<NotSession, child, wire, chan, sess, h>>

\* drain_reader (async = FALSE) or drain_reader_async (async = TRUE) is called
DrainStart(async) ==
    /\ h.pc = "idle"
    /\ ~h.dropped
    /\ h' = [h EXCEPT !.pc = "recv", !.async = async]
    /\ UNCHANGED <<NotSession, child, wire, reader, chan, sess>>

\* SessionReader::drain: try_recv until the channel is empty
DrainRecv ==
    /\ h.pc = "recv"
    /\ \/ /\ chan # <<>>
          /\ h' = [h EXCEPT !.msgs = Append(@, Head(chan))]
          /\ chan' = Tail(chan)
       \/ /\ chan = <<>>
          /\ h' = [h EXCEPT !.pc = "proc"]
          /\ chan' = chan
    /\ UNCHANGED <<NotSession, child, wire, reader, sess>>

\* drain_reader: for msg in messages
DrainProc ==
    /\ h.pc = "proc"
    /\ \/ /\ h.msgs # <<>>
          /\ sess' = HandleMsg(sess, Head(h.msgs), child)
          /\ h' = [h EXCEPT !.msgs = Tail(@),
                            !.eofHandled = @ \/ Head(h.msgs).type = "Eof"]
       \/ /\ h.msgs = <<>>
          /\ sess' = sess
          /\ h' = [h EXCEPT !.pc = IF h.async THEN "await" ELSE "idle"]
    /\ UNCHANGED <<NotSession, child, wire, reader, chan>>

\* drain_reader_async after its drain_reader: the deadline has passed, or
\* recv_timeout gives a message, or recv_timeout times out
AsyncWait ==
    /\ h.pc = "await"
    /\ \/ /\ h' = [h EXCEPT !.pc = "idle", !.async = FALSE]
          /\ UNCHANGED <<chan, sess>>
       \/ /\ chan # <<>>
          /\ sess' = HandleMsg(sess, Head(chan), child)
          /\ chan' = Tail(chan)
          /\ h' = IF Head(chan).type = "Data"
                  THEN [h EXCEPT !.pc = "recv"]
                  ELSE [h EXCEPT !.pc = "idle", !.async = FALSE,
                                 !.eofHandled = @ \/ Head(chan).type = "Eof"]
       \/ /\ h' = [h EXCEPT !.pc = "recv"]
          /\ UNCHANGED <<chan, sess>>
    /\ UNCHANGED <<NotSession, child, wire, reader>>

\* TerminalSession::terminate(force). PtySession::terminate signals the child
\* and waits for it: Ok(Some(code)) or Err. A child that had exited by itself
\* keeps its own code.
Terminate(force, ok, code) ==
    /\ h.pc = "idle"
    /\ ~h.dropped
    /\ ok => (child.st # "running" => code = child.code)
    /\ child' = IF ok /\ child.st = "running"
                THEN [child EXCEPT !.st = "exited", !.code = code]
                ELSE IF ok THEN [child EXCEPT !.st = "exited"] ELSE child
    /\ reader' = [reader EXCEPT !.shutdown = TRUE]
    /\ sess' = terminate_mark(sess, ok, code)
    /\ UNCHANGED <<NotSession, wire, chan, h>>

\* the last Arc of the session goes: the receiver and the reader are dropped
SessionDrop ==
    /\ h.pc = "idle"
    /\ ~h.dropped
    /\ h' = [h EXCEPT !.dropped = TRUE]
    /\ reader' = [reader EXCEPT !.shutdown = TRUE]
    /\ UNCHANGED <<NotSession, child, wire, chan, sess>>

NextSession ==
    \/ ChildWrite
    \/ \E k \in ExitCodes : ChildExit(k)
    \/ ChildReapable
    \/ ReaderRead
    \/ ReaderReadError
    \/ ReaderShutdown
    \/ ReaderSend
    \/ ReaderBlocked
    \/ \E a \in BOOLEAN : DrainStart(a)
    \/ DrainRecv
    \/ DrainProc
    \/ AsyncWait
    \/ \E f \in BOOLEAN, ok \in BOOLEAN, c \in ExitCodes : Terminate(f, ok, c)
    \/ SessionDrop

(***************************************************************************)
(* SpecWriter: tools/send.rs, pty/session.rs, session.rs                   *)
(***************************************************************************)
\* the send requests in flight
Senders == 1..NumSenders
\* the holder id of drain_socket_input
Drainer == 0
\* SocketInput::Resize in the input channel; SocketInput::Data(w) is w > NumSenders
Resize == 0
SocketWrites == (NumSenders + 1)..(NumSenders + MaxSocketInputs)

\* no mutual exclusion: the writer is taken whoever holds it
WriterLockIgnored == TRUE

\* writer.lock() of the std Mutex returns: nobody holds the writer
WriterLockFree == wlock = None

InitWriter ==
    /\ wlock = None
    /\ ptyIn = <<>>
    /\ snd = [t \in Senders |-> [pc |-> "idle", pos |-> 0]]
    /\ inq = <<>>
    /\ drn = [pc |-> "idle", cur |-> None, pos |-> 0, waited |-> FALSE, sent |-> 0,
              taken |-> <<>>]

\* handle_send, in spawn_blocking: writer.lock()
SendLock(t) ==
    /\ snd[t].pc = "idle"
    /\ WriterLockFree
    /\ wlock' = t
    /\ snd' = [snd EXCEPT ![t].pc = "write"]
    /\ UNCHANGED <<NotWriter, ptyIn, inq, drn>>

\* handle_send: write_all, one byte of the payload at a time
SendWrite(t) ==
    /\ snd[t].pc = "write"
    /\ snd[t].pos < PayloadLen
    /\ ptyIn' = Append(ptyIn, <<t, snd[t].pos + 1>>)
    /\ snd' = [snd EXCEPT ![t].pos = @ + 1]
    /\ UNCHANGED <<NotWriter, wlock, inq, drn>>

\* handle_send: the closure ends, after flush or on a write error; the guard
\* is dropped
SendDone(t) ==
    /\ snd[t].pc = "write"
    /\ wlock' = None
    /\ snd' = [snd EXCEPT ![t].pc = "done"]
    /\ UNCHANGED <<NotWriter, ptyIn, inq, drn>>

\* handle_client: input_tx.send(SocketInput) for an Input or a Resize frame
ClientInput(isData) ==
    /\ drn.sent < MaxSocketInputs
    /\ inq' = Append(inq, IF isData THEN NumSenders + drn.sent + 1 ELSE Resize)
    /\ drn' = [drn EXCEPT !.sent = @ + 1]
    /\ UNCHANGED <<NotWriter, wlock, ptyIn, snd>>

\* drain_socket_input: while let Ok(input) = rx.try_recv()
DrainInputRecv ==
    /\ drn.pc \in {"idle", "recv"}
    /\ \/ /\ inq # <<>>
          /\ inq' = Tail(inq)
          /\ drn' = IF Head(inq) = Resize
                    THEN [drn EXCEPT !.pc = "recv"]
                    ELSE [drn EXCEPT !.pc = "lock", !.cur = Head(inq), !.pos = 0,
                                     !.taken = Append(@, Head(inq))]
       \/ /\ inq = <<>>
          /\ drn.pc = "recv"
          /\ inq' = inq
          /\ drn' = [drn EXCEPT !.pc = "idle"]
    /\ UNCHANGED <<NotWriter, wlock, ptyIn, snd>>

\* PtySession::write: self.writer.lock()
DrainInputLock ==
    /\ drn.pc = "lock"
    /\ WriterLockFree
    /\ wlock' = Drainer
    /\ drn' = [drn EXCEPT !.pc = "write"]
    /\ UNCHANGED <<NotWriter, ptyIn, snd, inq>>

\* PtySession::write finds the writer held by a send and waits
DrainInputWaits ==
    /\ drn.pc = "lock"
    /\ wlock \in Senders
    /\ ~drn.waited
    /\ drn' = [drn EXCEPT !.waited = TRUE]
    /\ UNCHANGED <<NotWriter, wlock, ptyIn, snd, inq>>

\* PtySession::write: write_all, one byte of the payload at a time
DrainInputWrite ==
    /\ drn.pc = "write"
    /\ drn.pos < PayloadLen
    /\ ptyIn' = Append(ptyIn, <<drn.cur, drn.pos + 1>>)
    /\ drn' = [drn EXCEPT !.pos = @ + 1]
    /\ UNCHANGED <<NotWriter, wlock, snd, inq>>

\* PtySession::write returns: Ok after the flush (the loop goes on), or Err
\* (drain_socket_input returns through `?`); the guard is dropped
DrainInputDone ==
    /\ drn.pc = "write"
    /\ wlock' = None
    /\ drn' = [drn EXCEPT !.pc = IF drn.pos = PayloadLen THEN "recv" ELSE "idle"]
    /\ UNCHANGED <<NotWriter, ptyIn, snd, inq>>

NextWriter ==
    \/ \E t \in Senders : SendLock(t)
    \/ \E t \in Senders : SendWrite(t)
    \/ \E t \in Senders : SendDone(t)
    \/ \E d \in BOOLEAN : ClientInput(d)
    \/ DrainInputRecv
    \/ DrainInputLock
    \/ DrainInputWaits
    \/ DrainInputWrite
    \/ DrainInputDone

(***************************************************************************)
(* SpecStream: socket/server.rs (handle_client), socket/protocol.rs        *)
(* (write_message)                                                         *)
(***************************************************************************)
InitStream ==
    hc = [rx |-> <<>>, made |-> 0, task |-> "recv", cur |-> 0, wpos |-> 0,
          aborted |-> FALSE, pc |-> "input", cpos |-> 0, writer |-> "free",
          broken |-> FALSE, out |-> <<>>]

\* broadcast_output: a chunk for the receiver of the forwarder
StreamBroadcast ==
    /\ hc.made < MaxStreamOutputs
    /\ hc.task # "ended"
    /\ hc' = [hc EXCEPT !.made = @ + 1, !.rx = Append(@, hc.made + 1)]
    /\ UNCHANGED NotStream

\* the client's end goes away: every later write on the stream fails
StreamBreaks ==
    /\ ~hc.broken
    /\ hc.pc # "done"
    /\ hc' = [hc EXCEPT !.broken = TRUE]
    /\ UNCHANGED NotStream

\* the output forwarder: output_rx.recv().await gives a chunk
ForwarderRecv ==
    /\ hc.task = "recv"
    /\ hc.rx # <<>>
    /\ hc' = [hc EXCEPT !.task = "lock", !.cur = Head(hc.rx), !.rx = Tail(@)]
    /\ UNCHANGED NotStream

\* the output forwarder: writer_clone.lock().await
ForwarderLock ==
    /\ hc.task = "lock"
    /\ hc.writer = "free"
    /\ hc' = [hc EXCEPT !.task = "write", !.writer = "task", !.wpos = 0]
    /\ UNCHANGED NotStream

\* write_message, write_all: poll_write takes the next byte of the frame;
\* the task may be suspended between two of them when the socket is full
ForwarderWrite ==
    /\ hc.task = "write"
    /\ hc.wpos < FrameLen
    /\ ~hc.broken
    /\ hc' = [hc EXCEPT !.wpos = @ + 1,
                        !.out = Append(@, <<"Output", hc.cur, hc.wpos + 1>>)]
    /\ UNCHANGED NotStream

\* write_message returns: Ok after the flush, the guard is dropped and the
\* loop goes on; Err on a broken stream, the forwarder breaks
ForwarderWritten ==
    /\ hc.task = "write"
    /\ \/ /\ hc.wpos = FrameLen
          /\ hc' = [hc EXCEPT !.task = "recv", !.writer = "free"]
       \/ /\ hc.broken
          /\ hc' = [hc EXCEPT !.task = "ended", !.writer = "free"]
    /\ UNCHANGED NotStream

\* handle_client: the input loop ends (Close from the client, a read error,
\* the input channel closed); output_task.abort()
HandlerAbort ==
    /\ hc.pc = "input"
    /\ hc' = [hc EXCEPT !.pc = "lock", !.aborted = TRUE]
    /\ UNCHANGED NotStream

\* the runtime cancels the aborted forwarder at the await it is suspended
\* in: recv, lock, or the write_all / flush of write_message; its future is
\* dropped, and with it the writer guard. Until then the forwarder goes on
\* with the poll it is in.
ForwarderCancelled ==
    /\ hc.aborted
    /\ hc.task # "ended"
    /\ hc' = [hc EXCEPT !.task = "ended",
                        !.writer = IF hc.writer = "task" THEN "free" ELSE @]
    /\ UNCHANGED NotStream

\* handle_client: writer.lock().await
HandlerLock ==
    /\ hc.pc = "lock"
    /\ hc.writer = "free"
    /\ hc' = [hc EXCEPT !.pc = "close", !.writer = "handler", !.cpos = 0]
    /\ UNCHANGED NotStream

\* handle_client: write_message(Close(None)), byte by byte
HandlerWriteClose ==
    /\ hc.pc = "close"
    /\ hc.cpos < FrameLen
    /\ ~hc.broken
    /\ hc' = [hc EXCEPT !.cpos = @ + 1,
                        !.out = Append(@, <<"Close", 0, hc.cpos + 1>>)]
    /\ UNCHANGED NotStream

\* handle_client returns: the result of the Close write is ignored
HandlerDone ==
    /\ hc.pc = "close"
    /\ hc.cpos = FrameLen \/ hc.broken
    /\ hc' = [hc EXCEPT !.pc = "done", !.writer = "free"]
    /\ UNCHANGED NotStream

NextStream ==
    \/ StreamBroadcast
    \/ StreamBreaks
    \/ ForwarderRecv
    \/ ForwarderLock
    \/ ForwarderWrite
    \/ ForwarderWritten
    \/ HandlerAbort
    \/ ForwarderCancelled
    \/ HandlerLock
    \/ HandlerWriteClose
    \/ HandlerDone

(***************************************************************************)
(* SpecAttach: socket/server.rs, session.rs (broadcast_output)             *)
(***************************************************************************)
Conns == 1..NumConns

\* Message, as written to a connection
\* the screen_fn start_socket_server hands to the server: move || String::new()
screen_fn == <<>>
InfoFrame == [type |-> "Info", chunk |-> 0, screen |-> screen_fn]
OutputFrame(k) == [type |-> "Output", chunk |-> k]
CloseFrame == [type |-> "Close", chunk |-> 0]

\* the connection holds a broadcast receiver: the handler before it spawns
\* the forwarder, or the forwarder task
HasReceiver(c) == cl[c].pc = "info" \/ cl[c].fwd

\* output_tx.receiver_count()
receiver_count == Cardinality({c \in Conns : HasReceiver(c)})

\* a receiver that starts at the oldest retained message
subscribe_replay(len) == Max(0, len - BroadcastCapacity)

\* broadcast::Sender::subscribe: the receiver starts at the tail, it gets
\* the messages sent from now on
subscribe(len) == len

\* a forwarder that is already running while the handler writes Info
ForwarderRunsEarly(c) == cl[c].fwd \/ cl[c].pc = "info"

\* the output forwarder of a connection runs: handle_client spawns it after
\* write_message(Info) has returned Ok
ForwarderRuns(c) == cl[c].fwd

\* a connection the server has not accepted yet
NoClient == [pc |-> "none", fwd |-> FALSE, next |-> 0, subAt |-> 0,
             early |-> FALSE, frames |-> <<>>, fail |-> None]

\* a connection whose handler has returned: the stream, the receiver and
\* the writer are dropped, the frames it was sent are forgotten
ClosedClient == [NoClient EXCEPT !.pc = "closed"]

\* the forwarder of a connection has ended and its receiver is dropped: no
\* Output frame follows, the ones the client was sent are forgotten
receiver_dropped(r) ==
    [r EXCEPT !.fwd = FALSE, !.next = 0, !.subAt = 0, !.early = FALSE,
              !.frames = IF r.pc = "run" THEN <<InfoFrame>> ELSE @]

InitAttach ==
    /\ bcast = <<>>
    /\ cl = [c \in Conns |-> NoClient]
    /\ srv = "running"

\* drain_reader, the Data arm: broadcast_output(&data) for the next chunk
Broadcast ==
    /\ Len(bcast) < MaxBroadcasts
    /\ bcast' = Append(bcast, Len(bcast) + 1)
    /\ UNCHANGED <<NotAttach, cl, srv>>

\* the accept loop: listener.accept() gives a stream while MAX_CLIENTS
\* receivers exist: the stream is dropped
AcceptReject ==
    /\ srv = "running"
    /\ receiver_count >= MAX_CLIENTS
    /\ UNCHANGED <<NotAttach, bcast, cl, srv>>

\* the accept loop: listener.accept() gives a stream under the limit: the
\* server subscribes and spawns handle_client; the loop takes one stream at
\* a time, connection c is the c-th it serves
Accept(c) ==
    /\ srv = "running"
    /\ cl[c].pc = "none"
    /\ \A d \in Conns : d < c => cl[d].pc # "none"
    /\ receiver_count < MAX_CLIENTS
    /\ cl' = [cl EXCEPT ![c].pc = "info",
                        ![c].next = subscribe(Len(bcast)),
                        ![c].subAt = Len(bcast)]
    /\ UNCHANGED <<NotAttach, bcast, srv>>

\* handle_client: write_message(Info)?, then the forwarder is spawned
WriteInfo(c) ==
    /\ cl[c].pc = "info"
    /\ \/ cl' = [cl EXCEPT ![c].pc = "run", ![c].fwd = TRUE,
                           ![c].early = Len(bcast) > cl[c].subAt,
                           ![c].frames = Append(@, InfoFrame)]
       \/ cl' = [cl EXCEPT ![c] = ClosedClient]
    /\ UNCHANGED <<NotAttach, bcast, srv>>

\* the output forwarder: output_rx.recv() gives Lagged (the receiver skips to
\* the oldest retained message) or the next message, which is written as an
\* Output frame; a write error ends the forwarder
Forward(c) ==
    /\ ForwarderRuns(c)
    /\ \/ /\ Len(bcast) - cl[c].next > BroadcastCapacity
          /\ cl' = [cl EXCEPT ![c].next = Len(bcast) - BroadcastCapacity]
       \/ /\ Len(bcast) - cl[c].next <= BroadcastCapacity
          /\ cl[c].next < Len(bcast)
          /\ \/ cl' = [cl EXCEPT ![c].next = @ + 1,
                                 ![c].frames = Append(@, OutputFrame(bcast[cl[c].next + 1]))]
             \/ cl' = [cl EXCEPT ![c] = receiver_dropped(@)]
    /\ UNCHANGED <<NotAttach, bcast, srv>>

\* what ends the input loop of handle_client: a Close frame, or an Err of
\* read_message (ConnectionClosed, Io, UnknownType, InvalidPayload,
\* PayloadTooLarge: every Err arm breaks the loop alike)
ReadEnds == {"Close", "Err"}

\* a cleanup that aborts the forwarders of all the clients
abort_output_tasks(C, c) == [d \in Conns |-> receiver_dropped(C[d])]

\* handle_client: output_task.abort(), the forwarder of this client
abort_output_task(C, c) == [C EXCEPT ![c] = receiver_dropped(@)]

\* handle_client: the input loop ends on r (a Close frame, the end of the
\* stream, an error of read_message); output_task.abort(); then the Close
\* write, which waits for the writer
InputLoopEnd(c, r) ==
    /\ cl[c].pc = "run"
    /\ cl' = [abort_output_task(cl, c) EXCEPT
                 ![c].pc = "closing",
                 ![c].fail = IF r = "Close" THEN None ELSE Len(bcast)]
    /\ UNCHANGED <<NotAttach, bcast, srv>>

\* handle_client: write_message(Close(None)), its result ignored, and
\* Ok(()): the task ends, the stream is dropped
HandlerReturn(c) ==
    /\ cl[c].pc = "closing"
    /\ cl' = [cl EXCEPT ![c] = ClosedClient]
    /\ UNCHANGED <<NotAttach, bcast, srv>>

\* the accept loop ends: listener.accept() fails, or the shutdown signal
\* arrives; the handlers that run keep running
AcceptLoopEnd ==
    /\ srv = "running"
    /\ srv' = "stopped"
    /\ UNCHANGED <<NotAttach, bcast, cl>>

NextAttach ==
    \/ Broadcast
    \/ AcceptReject
    \/ \E c \in Conns : Accept(c)
    \/ \E c \in Conns : WriteInfo(c)
    \/ \E c \in Conns : Forward(c)
    \/ \E c \in Conns, r \in ReadEnds : InputLoopEnd(c, r)
    \/ \E c \in Conns : HandlerReturn(c)
    \/ AcceptLoopEnd

(***************************************************************************)
(* SpecManager: session/manager.rs, session.rs, socket/server.rs, tools/   *)
(***************************************************************************)
Ids == 1..NumIds
Objs == 1..MaxObjs
Tasks == 1..NumTasks

\* sessions.len()
count == Cardinality({i \in Ids : sessions[i] # None})

\* a limit check that lets one session too many through
at_capacity_off_by_one(n) == n > max_sessions

\* create_session: count >= self.config.max_sessions
at_capacity(n) == n >= max_sessions

\* TerminalError::MaxSessionsReached(self.config.max_sessions)
MaxSessionsReached(n) == [error |-> "MaxSessionsReached", limit |-> n]

\* an Arc of session o exists: the map's, or one a handler holds
Referenced(o, S, T) ==
    \/ \E i \in Ids : S[i] = o
    \/ \E t \in Tasks : T[t].obj = o

\* the sessions whose last Arc goes when the map becomes S and the handlers T
Dropping(O, S, T) == {o \in Objs : O[o].st = "live" /\ ~Referenced(o, S, T)}

\* drop of TerminalSession
DropSessions(O, S, T) ==
    [o \in Objs |-> IF o \in Dropping(O, S, T) THEN [O[o] EXCEPT !.st = "dropped"]
                    ELSE O[o]]

\* impl Drop for SocketServer: remove_file(&self.socket_path)
DropSocketFiles(F, O, S, T) ==
    [i \in Ids |-> IF \E o \in Dropping(O, S, T) : O[o].sock /\ O[o].id = i
                   THEN None ELSE F[i]]

\* the RwLock can be taken for reading / for writing
CanRead == mapW = None
CanWrite == mapW = None /\ mapR = {}

IdleTask == [pc |-> "idle", id |-> None, obj |-> None, todo |-> {}, rm |-> {},
             err |-> None, snap |-> {}]

InitManager ==
    /\ sessions = [i \in Ids |-> None]
    /\ obj = [o \in Objs |-> [st |-> "free", id |-> None, exited |-> FALSE,
                              sock |-> FALSE]]
    /\ sockFile = [i \in Ids |-> None]
    /\ mapW = None
    /\ mapR = {}
    /\ slock = [o \in Objs |-> None]
    /\ task = [t \in Tasks |-> IdleTask]
    /\ hist = [destroyed |-> [o \in Objs |-> FALSE],
               destroyedId |-> [i \in Ids |-> FALSE],
               destroyOk |-> [i \in Ids |-> 0],
               shut |-> [o \in Objs |-> 0]]

\* create_session: the limit check, under the read lock, which is released
\* at the end of the statement
CreateCheck(t) ==
    /\ task[t].pc = "idle"
    /\ CanRead
    /\ Cardinality({o \in Objs : obj[o].st = "free"}) >
           Cardinality({u \in Tasks : task[u].pc = "c_new"})
    /\ task' = IF at_capacity(count)
               THEN [task EXCEPT ![t].pc = "c_err",
                                 ![t].err = MaxSessionsReached(max_sessions)]
               ELSE [task EXCEPT ![t].pc = "c_new"]
    /\ UNCHANGED <<NotManager, sessions, obj, sockFile, mapW, mapR, slock, hist>>

\* create_session: return Err(MaxSessionsReached), before any session is
\* constructed
CreateReject(t) ==
    /\ task[t].pc = "c_err"
    /\ task' = [task EXCEPT ![t] = IdleTask]
    /\ UNCHANGED <<NotManager, sessions, obj, sockFile, mapW, mapR, slock, hist>>

\* create_session: TerminalSession::new (generate_session_id gives i; the
\* spawn can fail) and start_socket_server (a stale socket file is removed and
\* the path is bound; a failure is logged and the session has no socket)
CreateNew(t, i, spawned, sock) ==
    /\ task[t].pc = "c_new"
    /\ IF spawned
       THEN LET o == CHOOSE x \in Objs : obj[x].st = "free" /\
                         \A y \in Objs : obj[y].st = "free" => x <= y
            IN /\ obj' = [obj EXCEPT ![o] = [st |-> "live", id |-> i, exited |-> FALSE,
                                             sock |-> sock]]
               /\ sockFile' = IF sock THEN [sockFile EXCEPT ![i] = o] ELSE sockFile
               /\ task' = [task EXCEPT ![t].pc = "c_insert", ![t].obj = o, ![t].id = i]
       ELSE /\ task' = [task EXCEPT ![t] = IdleTask]
            /\ UNCHANGED <<obj, sockFile>>
    /\ UNCHANGED <<NotManager, sessions, mapW, mapR, slock, hist>>

\* create_session: self.sessions.write().await.insert(id, session); a session
\* already stored under the id is dropped from the map
CreateInsert(t) ==
    /\ task[t].pc = "c_insert"
    /\ CanWrite
    /\ LET S == [sessions EXCEPT ![task[t].id] = task[t].obj]
           T == [task EXCEPT ![t] = IdleTask]
       IN /\ sessions' = S
          /\ task' = T
          /\ obj' = DropSessions(obj, S, T)
          /\ sockFile' = DropSocketFiles(sockFile, obj, S, T)
    /\ UNCHANGED <<NotManager, mapW, mapR, slock, hist>>

\* destroy_session(i, force): self.sessions.write().await.remove(id), or
\* SessionNotFound (force only selects the signal terminate sends)
DestroyRemove(t, i) ==
    /\ task[t].pc = "idle"
    /\ CanWrite
    /\ IF sessions[i] = None
       THEN UNCHANGED <<sessions, task>>
       ELSE /\ sessions' = [sessions EXCEPT ![i] = None]
            /\ task' = [task EXCEPT ![t].pc = "d_lock", ![t].id = i,
                                    ![t].obj = sessions[i]]
    /\ UNCHANGED <<NotManager, obj, sockFile, mapW, mapR, slock, hist>>

\* destroy_session: session.lock().await, terminate(force) (Ok or Err), and
\* the return: the guard and the Arc are dropped
DestroyTerminate(t, ok) ==
    /\ task[t].pc = "d_lock"
    /\ slock[task[t].obj] = None
    /\ LET o == task[t].obj
           i == task[t].id
           O == [obj EXCEPT ![o].exited = @ \/ ok]
           T == [task EXCEPT ![t] = IdleTask]
       IN /\ task' = T
          /\ obj' = DropSessions(O, sessions, T)
          /\ sockFile' = DropSocketFiles(sockFile, O, sessions, T)
          /\ hist' = [hist EXCEPT !.destroyed[o] = TRUE,
                                  !.destroyedId[i] = TRUE,
                                  !.destroyOk[i] = IF ok /\ @ < 2 THEN @ + 1 ELSE @]
    /\ UNCHANGED <<NotManager, sessions, mapW, mapR, slock>>

\* read, send, info: manager.get(i), the Arc is cloned under the read lock,
\* or SessionNotFound
UseGet(t, i) ==
    /\ task[t].pc = "idle"
    /\ CanRead
    /\ sessions[i] # None
    /\ task' = [task EXCEPT ![t].pc = "u_lock", ![t].id = i, ![t].obj = sessions[i]]
    /\ UNCHANGED <<NotManager, sessions, obj, sockFile, mapW, mapR, slock, hist>>

\* read, send, info: session.lock().await
UseLock(t) ==
    /\ task[t].pc = "u_lock"
    /\ slock[task[t].obj] = None
    /\ slock' = [slock EXCEPT ![task[t].obj] = t]
    /\ task' = [task EXCEPT ![t].pc = "u_op"]
    /\ UNCHANGED <<NotManager, sessions, obj, sockFile, mapW, mapR, hist>>

\* read, send, info: the work under the lock (a drain may find the child
\* exited), then the return: the guard and the Arc are dropped
UseReturn(t, sawExit) ==
    /\ task[t].pc = "u_op"
    /\ LET o == task[t].obj
           O == [obj EXCEPT ![o].exited = @ \/ sawExit]
           T == [task EXCEPT ![t] = IdleTask]
       IN /\ task' = T
          /\ slock' = [slock EXCEPT ![o] = None]
          /\ obj' = DropSessions(O, sessions, T)
          /\ sockFile' = DropSocketFiles(sockFile, O, sessions, T)
    /\ UNCHANGED <<NotManager, sessions, mapW, mapR, hist>>

\* cleanup_exited: self.sessions.read().await, kept over the scan
CleanupStart(t) ==
    /\ task[t].pc = "idle"
    /\ CanRead
    /\ count > 0
    /\ mapR' = mapR \cup {t}
    /\ task' = [task EXCEPT ![t].pc = "k_scan",
                            ![t].todo = {i \in Ids : sessions[i] # None}]
    /\ UNCHANGED <<NotManager, sessions, obj, sockFile, mapW, slock, hist>>

\* cleanup_exited: one session of the scan: lock it, note its id if it has
\* exited; after the last one the read lock is released
CleanupScan(t) ==
    /\ task[t].pc = "k_scan"
    /\ \/ /\ \E i \in task[t].todo :
                /\ slock[sessions[i]] = None
                /\ task' = [task EXCEPT
                              ![t].todo = @ \ {i},
                              ![t].rm = IF obj[sessions[i]].exited THEN @ \cup {i} ELSE @]
          /\ mapR' = mapR
       \/ /\ task[t].todo = {}
          /\ mapR' = mapR \ {t}
          /\ task' = [task EXCEPT ![t] = IF task[t].rm = {} THEN IdleTask
                                        ELSE [@ EXCEPT !.pc = "k_remove"]]
    /\ UNCHANGED <<NotManager, sessions, obj, sockFile, mapW, slock, hist>>

\* cleanup_exited: self.sessions.write().await, remove every noted id
CleanupRemove(t) ==
    /\ task[t].pc = "k_remove"
    /\ CanWrite
    /\ LET S == [i \in Ids |-> IF i \in task[t].rm THEN None ELSE sessions[i]]
           T == [task EXCEPT ![t] = IdleTask]
       IN /\ sessions' = S
          /\ task' = T
          /\ obj' = DropSessions(obj, S, T)
          /\ sockFile' = DropSocketFiles(sockFile, obj, S, T)
    /\ UNCHANGED <<NotManager, mapW, mapR, slock, hist>>

\* a drain that drops a session without terminating it
drain_drop(n) == n

\* shutdown: session.terminate(false) on a drained session, counted (the
\* count stops at 2)
drain_terminate(n) == IF n < 2 THEN n + 1 ELSE n

\* shutdown: self.sessions.write().await, kept over the whole drain
ShutdownStart(t) ==
    /\ task[t].pc = "idle"
    /\ CanWrite
    /\ count > 0
    /\ mapW' = t
    /\ task' = [task EXCEPT ![t].pc = "s_drain",
                            ![t].snap = {sessions[i] : i \in {j \in Ids : sessions[j] # None}}]
    /\ UNCHANGED <<NotManager, sessions, obj, sockFile, mapR, slock, hist>>

\* shutdown: one session of sessions.drain(): lock it, terminate(false) (Ok
\* or Err), drop it; after the last one the write lock is released
ShutdownDrain(t, ok) ==
    /\ task[t].pc = "s_drain"
    /\ \/ /\ \E i \in Ids :
                /\ sessions[i] # None
                /\ slock[sessions[i]] = None
                /\ LET o == sessions[i]
                       O == [obj EXCEPT ![o].exited = @ \/ ok]
                       S == [sessions EXCEPT ![i] = None]
                   IN /\ sessions' = S
                      /\ obj' = DropSessions(O, S, task)
                      /\ sockFile' = DropSocketFiles(sockFile, O, S, task)
                      /\ hist' = [hist EXCEPT !.shut[o] = drain_terminate(@)]
          /\ UNCHANGED <<mapW, task>>
       \/ /\ count = 0
          /\ mapW' = None
          /\ task' = [task EXCEPT ![t] = IdleTask]
          /\ UNCHANGED <<sessions, obj, sockFile, hist>>
    /\ UNCHANGED <<NotManager, mapR, slock>>

NextManager ==
    \/ \E t \in Tasks : CreateCheck(t)
    \/ \E t \in Tasks : CreateReject(t)
    \/ \E t \in Tasks, i \in Ids, sp \in BOOLEAN, so \in BOOLEAN : CreateNew(t, i, sp, so)
    \/ \E t \in Tasks : CreateInsert(t)
    \/ \E t \in Tasks, i \in Ids : DestroyRemove(t, i)
    \/ \E t \in Tasks, ok \in BOOLEAN : DestroyTerminate(t, ok)
    \/ \E t \in Tasks, i \in Ids : UseGet(t, i)
    \/ \E t \in Tasks : UseLock(t)
    \/ \E t \in Tasks, e \in BOOLEAN : UseReturn(t, e)
    \/ \E t \in Tasks : CleanupStart(t)
    \/ \E t \in Tasks : CleanupScan(t)
    \/ \E t \in Tasks : CleanupRemove(t)
    \/ \E t \in Tasks : ShutdownStart(t)
    \/ \E t \in Tasks, ok \in BOOLEAN : ShutdownDrain(t, ok)

(***************************************************************************)
(* SpecRead: tools/read.rs, tools/create_session.rs, terminal/tracker.rs,  *)
(* terminal/prompt.rs, terminal/ansi.rs, session.rs (drain_reader)         *)
(***************************************************************************)
\* what a chunk of PTY output holds: a line of output (with a byte that is
\* no valid UTF-8), or a coloured shell prompt
ChunkKinds == {"line", "prompt"}

\* the bytes of a chunk
ChunkBytes(kind) ==
    CASE kind = "line" -> <<"a", "bad", "nl">>
      [] kind = "prompt" -> <<"esc", "[", "m", "$", "sp">>

\* c.is_ascii_alphabetic()
is_ascii_alphabetic(c) == c \in {"a", "m"}

\* String::from_utf8_lossy: every invalid byte becomes U+FFFD
RECURSIVE from_utf8_lossy(_)
from_utf8_lossy(b) ==
    IF b = <<>> THEN <<>>
    ELSE <<IF Head(b) = "bad" THEN "rep" ELSE Head(b)>> \o from_utf8_lossy(Tail(b))

\* what strip_ansi appends for ESC followed by c, a character that opens
\* neither CSI nor OSC: nothing; the escape and the character in the mutant
escape_kept(c) == <<"esc", c>>
escape_dropped(c) == <<>>

\* strip_ansi, from state st on: Normal, Escape, Csi, Osc, OscEscape
RECURSIVE StripFrom(_, _)
StripFrom(s, st) ==
    IF s = <<>> THEN <<>>
    ELSE LET c == Head(s) IN
         CASE st = "Normal" ->
                IF c = "esc" THEN StripFrom(Tail(s), "Escape")
                ELSE <<c>> \o StripFrom(Tail(s), "Normal")
           [] st = "Escape" ->
                IF c = "[" THEN StripFrom(Tail(s), "Csi")
                ELSE IF c = "]" THEN StripFrom(Tail(s), "Osc")
                ELSE escape_dropped(c) \o StripFrom(Tail(s), "Normal")
           [] st = "Csi" ->
                IF is_ascii_alphabetic(c) \/ c \in {"@", "grave", "{", "|", "}", "~"}
                THEN StripFrom(Tail(s), "Normal")
                ELSE StripFrom(Tail(s), "Csi")
           [] st = "Osc" ->
                IF c = "bel" THEN StripFrom(Tail(s), "Normal")
                ELSE IF c = "esc" THEN StripFrom(Tail(s), "OscEscape")
                ELSE StripFrom(Tail(s), "Osc")
           [] OTHER ->
                IF c = "\\" THEN StripFrom(Tail(s), "Normal")
                ELSE StripFrom(Tail(s), "Osc")

strip_ansi(s) == StripFrom(s, "Normal")

\* OutputTracker::format_content
format_content(buffer, format) ==
    IF format = "Plain" THEN strip_ansi(from_utf8_lossy(buffer))
    ELSE from_utf8_lossy(buffer)

\* str::lines: the pieces between line feeds, no empty piece after the last
RECURSIVE SplitLines(_, _)
SplitLines(s, cur) ==
    IF s = <<>> THEN (IF cur = <<>> THEN <<>> ELSE <<cur>>)
    ELSE IF Head(s) = "nl" THEN <<cur>> \o SplitLines(Tail(s), <<>>)
    ELSE SplitLines(Tail(s), Append(cur, Head(s)))

lines(s) == SplitLines(s, <<>>)

\* str::trim_end
RECURSIVE trim_end(_)
trim_end(l) ==
    IF l # <<>> /\ l[Len(l)] = "sp" THEN trim_end(SubSeq(l, 1, Len(l) - 1)) ELSE l

\* the default prompt_pattern on a trimmed line: it ends with $, # or >
is_match(l) == l # <<>> /\ l[Len(l)] \in {"$", "#", ">"}

\* PromptDetector::detect: one of the last two lines is a prompt
detect(content) ==
    LET ls == lines(content)
        n == Len(ls)
    IN \E i \in 1..n :
          /\ i > n - 2
          /\ trim_end(ls[i]) # <<>>
          /\ is_match(trim_end(ls[i]))

\* timeout_ms / ready_timeout_ms, wait_idle_ms a request can carry (0: absent)
Timeouts == {0, TimeoutMs}
IdleWaits == {0, WaitIdleMs}
Views == {"Screen", "New", "Scrollback"}
Formats == {"Plain", "Raw"}

Min(a, b) == IF a < b THEN a ELSE b

IdleRead == [pc |-> "idle", op |-> "none", view |-> "New", format |-> "Plain",
             timeout_ms |-> 0, wait_idle_ms |-> 0, wait_for_prompt |-> FALSE,
             t |-> 0, last_output |-> 0, sleepStart |-> 0, is_idle |-> FALSE,
             had_data |-> FALSE, final |-> FALSE, broke |-> "none", quiet |-> TRUE]

InitRead ==
    /\ cout = [produced |-> 0, ended |-> FALSE]
    /\ rchan = <<>>
    /\ term = [tracker |-> <<>>, exited |-> FALSE, since |-> <<>>]
    /\ sin = [queued |-> 0, sent |-> 0, room |-> TRUE]
    /\ rd = IdleRead

\* handle_read_internal: deadline = now + max(timeout_ms, 1)
read_deadline(timeout_ms) == Max(timeout_ms, MinTimeoutMs)

\* TerminalState::is_prompt_detected
is_prompt_detected(s) == detect(format_content(s.tracker, "Plain"))

\* a take that returns the content and keeps the buffer
take_keeps(buffer) == buffer

\* OutputTracker::take / clear: self.buffer.clear()
take_clears(buffer) == <<>>

\* the child writes a chunk; the reader thread reads it and sends it
ChildOutput(kind) ==
    /\ ~cout.ended
    /\ cout.produced < MaxOut
    /\ Len(rchan) < ChannelCapacity
    /\ cout' = [cout EXCEPT !.produced = @ + 1]
    /\ rchan' = Append(rchan, kind)
    /\ UNCHANGED <<NotRead, term, sin, rd>>

\* the child exits; the reader thread reads Ok(0) and sends Eof
ChildEnd ==
    /\ ~cout.ended
    /\ Len(rchan) < ChannelCapacity
    /\ cout' = [cout EXCEPT !.ended = TRUE]
    /\ rchan' = Append(rchan, "Eof")
    /\ UNCHANGED <<NotRead, term, sin, rd>>

\* an attach client sends an Input frame: handle_client queues SocketInput::Data
SocketData ==
    /\ sin.sent < MaxSockIn
    /\ sin' = [sin EXCEPT !.sent = @ + 1, !.queued = @ + 1]
    /\ UNCHANGED <<NotRead, cout, rchan, term, rd>>

\* a send request writes to the PTY (handle_send does so in spawn_blocking,
\* without the session lock) and fills the input the child has not read
SendFillsPty ==
    /\ sin.room
    /\ ~cout.ended
    /\ sin' = [sin EXCEPT !.room = FALSE]
    /\ UNCHANGED <<NotRead, cout, rchan, term, rd>>

\* the child reads its input: the PTY takes a write again
ChildReadsInput ==
    /\ ~sin.room
    /\ ~cout.ended
    /\ sin' = [sin EXCEPT !.room = TRUE]
    /\ UNCHANGED <<NotRead, cout, rchan, term, rd>>

\* the handler waits: in its sleep, or in a write the PTY does not take
Waiting ==
    \/ rd.pc = "sleep"
    \/ rd.pc = "sock" /\ sin.queued > 0 /\ ~sin.room

\* time passes while the handler waits (its other steps take no time)
Tick ==
    /\ Waiting
    /\ rd.t < MaxTime
    /\ rd' = [rd EXCEPT !.t = @ + 1]
    /\ UNCHANGED <<NotRead, cout, rchan, term, sin>>

\* handle_read_internal up to the loop: the session is locked, the deadline
\* and last_output are taken
ReadStart(timeout_ms, wait_idle_ms, wait_for_prompt) ==
    /\ rd.pc = "idle"
    /\ rd' = [IdleRead EXCEPT !.pc = "sock", !.op = "read",
                              !.timeout_ms = timeout_ms,
                              !.wait_idle_ms = wait_idle_ms,
                              !.wait_for_prompt = wait_for_prompt]
    /\ UNCHANGED <<NotRead, cout, rchan, term, sin>>

\* handle_create_session after create_session, wait_ready: the session is
\* locked and the deadline is taken
ReadyStart(ready_timeout_ms) ==
    /\ rd.pc = "idle"
    /\ rd' = [IdleRead EXCEPT !.pc = "top", !.op = "ready", !.timeout_ms = ready_timeout_ms]
    /\ UNCHANGED <<NotRead, cout, rchan, term, sin>>

\* drain_reader: drain_socket_input, one SocketInput::Data: PtySession::write
\* returns Ok, or Err (the PTY is closed), or it does not return while the
\* PTY takes no input; an empty queue ends the loop
DrainSocketInput ==
    /\ rd.pc = "sock"
    /\ \/ /\ sin.queued = 0
          /\ rd' = [rd EXCEPT !.pc = "recv", !.had_data = FALSE]
          /\ sin' = sin
       \/ /\ sin.queued > 0
          /\ sin.room
          /\ sin' = [sin EXCEPT !.queued = @ - 1, !.room = FALSE]
          /\ rd' = rd
       \/ /\ sin.queued > 0
          /\ cout.ended
          /\ sin' = [sin EXCEPT !.queued = @ - 1]
          /\ rd' = [rd EXCEPT !.pc = "recv", !.had_data = FALSE]
    /\ UNCHANGED <<NotRead, cout, rchan, term>>

\* drain_reader: reader.drain() and the match on each message: Data is
\* processed (tracker.append), Eof marks the session exited; an empty channel
\* ends the drain
DrainReader ==
    /\ rd.pc = "recv"
    /\ IF rchan # <<>>
       THEN /\ rchan' = Tail(rchan)
            /\ IF Head(rchan) = "Eof"
               THEN /\ term' = [term EXCEPT !.exited = TRUE]
                    /\ rd' = rd
               ELSE /\ term' = [term EXCEPT
                                  !.tracker = @ \o ChunkBytes(Head(rchan)),
                                  !.since = @ \o ChunkBytes(Head(rchan))]
                    /\ rd' = [rd EXCEPT !.had_data = TRUE, !.quiet = FALSE]
       ELSE /\ rd' = [rd EXCEPT !.pc = IF rd.final THEN "view" ELSE "check"]
            /\ UNCHANGED <<rchan, term>>
    /\ UNCHANGED <<NotRead, cout, sin>>

\* handle_read_internal, the loop after the drain: last_output, then the
\* exit, prompt, idle and timeout checks, then sleep(10 ms) or break
ReadCheck ==
    /\ rd.pc = "check"
    /\ rd.op = "read"
    /\ LET lo == IF rd.had_data THEN rd.t ELSE rd.last_output
           r == [rd EXCEPT !.last_output = IF rd.wait_idle_ms > 0 THEN lo ELSE 0,
                           !.had_data = FALSE]
           brk(why) == [r EXCEPT !.pc = "sock", !.final = TRUE, !.broke = why]
       IN rd' = IF term.exited THEN brk("exit")
                ELSE IF rd.wait_for_prompt /\ is_prompt_detected(term) THEN brk("prompt")
                ELSE IF rd.wait_idle_ms > 0 /\ rd.t - lo >= rd.wait_idle_ms
                     THEN [brk("idle") EXCEPT !.is_idle = TRUE]
                ELSE IF rd.t >= read_deadline(rd.timeout_ms) THEN brk("deadline")
                ELSE IF rd.timeout_ms > 0 \/ rd.wait_idle_ms > 0 \/ rd.wait_for_prompt
                     THEN [r EXCEPT !.pc = "sleep", !.sleepStart = rd.t]
                ELSE brk("nowait")
    /\ UNCHANGED <<NotRead, cout, rchan, term, sin>>

\* handle_read_internal, match view: the view and the format of the request
\* are used from here on (the format only shows in the content of the New
\* view, the other views are requested as Plain)
ReadView(view, format) ==
    /\ rd.pc = "view"
    /\ view # "New" => format = "Plain"
    /\ rd' = [rd EXCEPT !.pc = "ret", !.view = view, !.format = format]
    /\ UNCHANGED <<NotRead, cout, rchan, term, sin>>

\* TerminalState::read(view, format) and read_scrollback: New takes the
\* tracker, the other views leave it
AfterContent(s, view) ==
    [s EXCEPT !.tracker = IF view = "New" THEN take_clears(@) ELSE @,
              !.since = IF view = "New" THEN <<>> ELSE @]

\* handle_read_internal after the final drain, the response it builds: the
\* content of the view (that of the grid and of the scrollback is left
\* out), then has_new_content, prompt_detected and exited are read
ReadOutput ==
    [content |-> IF rd.view = "New" THEN format_content(term.tracker, rd.format)
                 ELSE <<>>,
     has_new_content |-> AfterContent(term, rd.view).tracker # <<>>,
     prompt_detected |-> is_prompt_detected(AfterContent(term, rd.view)),
     idle |-> rd.is_idle,
     exited |-> term.exited]

\* handle_read_internal returns Ok(ReadOutput)
ReadReturn ==
    /\ rd.pc = "ret"
    /\ rd.op = "read"
    /\ term' = AfterContent(term, rd.view)
    /\ rd' = IdleRead
    /\ UNCHANGED <<NotRead, cout, rchan, sin>>

\* handle_create_session leaves its loop: tracker_mut().clear(), and the
\* response of create
ReadyDone ==
    /\ term' = [term EXCEPT !.tracker = take_clears(@), !.since = <<>>]
    /\ rd' = IdleRead

\* handle_create_session: while Instant::now() < deadline
ReadyTop ==
    /\ rd.pc = "top"
    /\ IF rd.t < rd.timeout_ms
       THEN /\ rd' = [rd EXCEPT !.pc = "sock"]
            /\ UNCHANGED term
       ELSE ReadyDone
    /\ UNCHANGED <<NotRead, cout, rchan, sin>>

\* handle_create_session, the loop after the drain: break on the prompt or
\* on exit, else sleep(50 ms)
ReadyCheck ==
    /\ rd.pc = "check"
    /\ rd.op = "ready"
    /\ IF is_prompt_detected(term) \/ term.exited
       THEN ReadyDone
       ELSE /\ rd' = [rd EXCEPT !.pc = "sleep", !.sleepStart = rd.t]
            /\ UNCHANGED term
    /\ UNCHANGED <<NotRead, cout, rchan, sin>>

\* tokio::time::sleep returns: the time has passed
Wake ==
    /\ rd.pc = "sleep"
    /\ rd.t >= Min(rd.sleepStart + (IF rd.op = "read" THEN ReadSleepMs ELSE ReadySleepMs),
                   MaxTime)
    /\ rd' = [rd EXCEPT !.pc = IF rd.op = "read" THEN "sock" ELSE "top",
                        !.sleepStart = 0]
    /\ UNCHANGED <<NotRead, cout, rchan, term, sin>>

\* the steps of the handler
ReadHandler ==
    \/ DrainSocketInput
    \/ DrainReader
    \/ ReadCheck
    \/ \E v \in Views, f \in Formats : ReadView(v, f)
    \/ ReadReturn
    \/ ReadyTop
    \/ ReadyCheck
    \/ Wake

NextRead ==
    \/ \E k \in ChunkKinds : ChildOutput(k)
    \/ ChildEnd
    \/ SocketData
    \/ SendFillsPty
    \/ ChildReadsInput
    \/ Tick
    \/ \E tm \in Timeouts, w \in IdleWaits, p \in BOOLEAN : ReadStart(tm, w, p)
    \/ \E v \in Views, f \in Formats : ReadView(v, f)
    \/ \E tm \in Timeouts : ReadyStart(tm)
    \/ DrainSocketInput
    \/ DrainReader
    \/ ReadCheck
    \/ ReadReturn
    \/ ReadyTop
    \/ ReadyCheck
    \/ Wake

(***************************************************************************)
(* The specifications.                                                     *)
(***************************************************************************)
(***************************************************************************)
(* SpecProtocol: socket/protocol.rs (read_message, Message::decode)        *)
(***************************************************************************)
MSG_OUTPUT == 1
MSG_INPUT == 2
MSG_RESIZE == 3
MSG_INFO == 4
MSG_CLOSE == 5
HEADER_SIZE == 5
MAX_PAYLOAD_SIZE == 16 * 1024 * 1024

Bytes == 0..MaxByte

\* u32::from_be_bytes
from_be_bytes(b) == b[1] * 16777216 + b[2] * 65536 + b[3] * 256 + b[4]

\* Result<Message, ProtocolError>
OkMessage(kind) == [ok |-> TRUE, is |-> kind]
Err(kind) == [ok |-> FALSE, is |-> kind]

\* Message::decode; no sequence over Bytes is the JSON of a
\* SessionInfoPayload, every one is valid UTF-8
decode(msg_type, payload) ==
    CASE msg_type = MSG_OUTPUT -> OkMessage("Output")
      [] msg_type = MSG_INPUT -> OkMessage("Input")
      [] msg_type = MSG_RESIZE ->
            IF Len(payload) # 4 THEN Err("InvalidPayload") ELSE OkMessage("Resize")
      [] msg_type = MSG_INFO -> Err("InvalidPayload")
      [] msg_type = MSG_CLOSE -> OkMessage("Close")
      [] OTHER -> Err("UnknownType")

\* read_message, the payload: reader.read_exact(&mut payload).await?, the
\* io::Error becomes ProtocolError::Io through From
payload_eof == Err("Io")

\* read_message, the header: ErrorKind::UnexpectedEof is mapped
header_eof == Err("ConnectionClosed")

IdleReadMessage == [pc |-> "idle", header |-> <<>>, len |-> 0, payload |-> <<>>,
                    eof |-> "none", result |-> None]

InitProto ==
    /\ peer = [buf |-> <<>>, sent |-> 0, closed |-> FALSE]
    /\ rm = IdleReadMessage

\* the peer writes one byte to the connection
PeerWrite(b) ==
    /\ ~peer.closed
    /\ peer.sent < MaxStream
    /\ peer' = [peer EXCEPT !.buf = Append(@, b), !.sent = @ + 1]
    /\ UNCHANGED <<NotProto, rm>>

\* the peer closes the connection: after the unread bytes the stream ends
PeerClose ==
    /\ ~peer.closed
    /\ peer' = [peer EXCEPT !.closed = TRUE]
    /\ UNCHANGED <<NotProto, rm>>

\* read_message is called
ReadMessageStart ==
    /\ rm.pc = "idle"
    /\ rm' = [IdleReadMessage EXCEPT !.pc = "header"]
    /\ UNCHANGED <<NotProto, peer>>

\* what read_message does once the header is complete: the length check,
\* then the payload is read, or decode is called on an empty payload
after_header(r) ==
    LET len == from_be_bytes(SubSeq(r.header, 2, 5)) IN
    IF len > MAX_PAYLOAD_SIZE
    THEN [r EXCEPT !.pc = "done", !.len = len, !.result = Err("PayloadTooLarge")]
    ELSE IF len > 0 THEN [r EXCEPT !.pc = "payload", !.len = len]
    ELSE [r EXCEPT !.pc = "done", !.result = decode(r.header[1], <<>>)]

\* read_exact(&mut header): one more byte of the header arrives
ReadHeader ==
    /\ rm.pc = "header"
    /\ peer.buf # <<>>
    /\ peer' = [peer EXCEPT !.buf = Tail(@)]
    /\ LET r == [rm EXCEPT !.header = Append(@, Head(peer.buf))]
       IN rm' = IF Len(r.header) = HEADER_SIZE THEN after_header(r) ELSE r
    /\ UNCHANGED NotProto

\* read_exact(&mut header): the stream ends before the header is complete
HeaderEof ==
    /\ rm.pc = "header"
    /\ peer.buf = <<>> /\ peer.closed
    /\ rm' = [rm EXCEPT !.pc = "done", !.eof = "header", !.result = header_eof]
    /\ UNCHANGED <<NotProto, peer>>

\* read_exact(&mut payload): one more byte of the payload arrives; with the
\* last one, Message::decode
ReadPayload ==
    /\ rm.pc = "payload"
    /\ peer.buf # <<>>
    /\ peer' = [peer EXCEPT !.buf = Tail(@)]
    /\ LET r == [rm EXCEPT !.payload = Append(@, Head(peer.buf))]
       IN rm' = IF Len(r.payload) = r.len
                THEN [r EXCEPT !.pc = "done", !.result = decode(r.header[1], r.payload)]
                ELSE r
    /\ UNCHANGED NotProto

\* read_exact(&mut payload): the stream ends before the payload is complete
PayloadEof ==
    /\ rm.pc = "payload"
    /\ peer.buf = <<>> /\ peer.closed
    /\ rm' = [rm EXCEPT !.pc = "done", !.eof = "payload", !.result = payload_eof]
    /\ UNCHANGED <<NotProto, peer>>

\* read_exact fails with another io::Error (the connection is reset)
ReadIoError ==
    /\ rm.pc \in {"header", "payload"}
    /\ rm' = [rm EXCEPT !.pc = "done", !.result = Err("Io")]
    /\ UNCHANGED <<NotProto, peer>>

\* read_message has returned; the caller may call it again
ReadMessageReturn ==
    /\ rm.pc = "done"
    /\ rm' = IdleReadMessage
    /\ UNCHANGED <<NotProto, peer>>

NextProto ==
    \/ \E b \in Bytes : PeerWrite(b)
    \/ PeerClose
    \/ ReadMessageStart
    \/ ReadHeader
    \/ HeaderEof
    \/ ReadPayload
    \/ PayloadEof
    \/ ReadIoError
    \/ ReadMessageReturn

(***************************************************************************)
(* SpecEmulator: the ScreenPerformer of one terminal.  The VT parser (the  *)
(* vte crate) turns the bytes of process_output into callbacks on the      *)
(* performer: print, execute, csi_dispatch, esc_dispatch; one action per   *)
(* callback.  Rows and columns count from 0 as in the code; cells[r + 1]   *)
(* is row r.  Cell attributes, cursor visibility and the title are left    *)
(* out: no callback reads them.                                            *)
(***************************************************************************)
\* u16::MAX, the ceiling of a CSI parameter and of a cursor coordinate
U16_MAX == 2^16 - 1

\* u16::saturating_sub
saturating_sub(a, b) == IF a >= b THEN a - b ELSE 0
\* a + b on u16 without overflow checks
wrapping_add(a, b) == (a + b) % (U16_MAX + 1)
\* a + b on u16 overflows: a panic with overflow checks, a wrap without
add_overflows(a, b) == a + b > U16_MAX

\* the characters print() is called with: narrow, wide (East Asian), and a
\* combining mark
Chars == {"a", "W", "c"}
\* UnicodeWidthChar::width(c).unwrap_or(1)
char_width(c) == CASE c = "W" -> 2 [] c = "c" -> 0 [] OTHER -> 1

\* Cell::default()
default_cell == [character |-> " ", width |-> 1]
\* the continuation cell put_char writes after a wide character
continuation_cell == [character |-> " ", width |-> 0]
\* vec![Cell::default(); cols]
blank_row(cols) == [c \in 1..cols |-> default_cell]
\* n rows of vec![Cell::default(); cols]
blank_rows(n, cols) == [r \in 1..n |-> blank_row(cols)]
\* n cells of Cell::default()
blank_cells(n) == [c \in 1..n |-> default_cell]

\* Option<T> of a field that holds a structure: Nothing, or Some(x) = <<x>>
Nothing == <<>>
Some(x) == <<x>>

\* CursorState::new()
CursorState_new == [row |-> 0, col |-> 0, saved |-> Nothing]
\* CursorState::move_to
move_to(cu, row, col, max_rows, max_cols) ==
    [cu EXCEPT !.row = Min(row, saturating_sub(max_rows, 1)),
               !.col = Min(col, saturating_sub(max_cols, 1))]
\* CursorState::move_up
move_up(cu, n) == [cu EXCEPT !.row = saturating_sub(@, n)]
\* the row after self.row + n: .min(max_rows - 1), dropped in the mutant
unclamped(v, max) == v
clamped(v, max) == Min(v, saturating_sub(max, 1))
\* CursorState::move_down (the sum wraps when it overflows)
move_down(cu, n, max_rows) ==
    [cu EXCEPT !.row = clamped(wrapping_add(@, n), max_rows)]
\* CursorState::move_left
move_left(cu, n) == [cu EXCEPT !.col = saturating_sub(@, n)]
\* CursorState::move_right (the sum wraps when it overflows)
move_right(cu, n, max_cols) ==
    [cu EXCEPT !.col = clamped(wrapping_add(@, n), max_cols)]
\* CursorState::carriage_return
cursor_carriage_return(cu) == [cu EXCEPT !.col = 0]
\* CursorState::line_feed: the cursor and whether the screen has to scroll
cursor_line_feed(cu, max_rows) ==
    IF cu.row + 1 >= max_rows
    THEN [cur |-> cu, scroll |-> TRUE]
    ELSE [cur |-> [cu EXCEPT !.row = @ + 1], scroll |-> FALSE]
\* CursorState::newline
cursor_newline(cu, max_rows) == cursor_line_feed([cu EXCEPT !.col = 0], max_rows)
\* CursorState::advance
advance(cu, max_cols, max_rows) ==
    IF cu.col + 1 >= max_cols
    THEN cursor_line_feed([cu EXCEPT !.col = 0], max_rows)
    ELSE [cur |-> [cu EXCEPT !.col = @ + 1], scroll |-> FALSE]
\* CursorState::advance_by, for the widths 0, 1 and 2 of a character
advance_by(cu, width, max_cols, max_rows) ==
    LET a1 == advance(cu, max_cols, max_rows)
        a2 == advance(a1.cur, max_cols, max_rows)
    IN CASE width = 0 -> [cur |-> cu, scroll |-> FALSE]
         [] width = 1 -> a1
         [] OTHER -> [cur |-> a2.cur, scroll |-> a1.scroll \/ a2.scroll]
\* CursorState::save
save(cu) == [cu EXCEPT !.saved = Some(<<cu.row, cu.col>>)]
\* CursorState::restore
restore(cu) ==
    IF cu.saved = Nothing THEN cu
    ELSE [cu EXCEPT !.row = cu.saved[1][1], !.col = cu.saved[1][2]]
\* CursorState::move_to_column (1-indexed argument)
move_to_column(cu, col, max_cols) ==
    [cu EXCEPT !.col = Min(saturating_sub(col, 1), saturating_sub(max_cols, 1))]
\* CursorState::move_to_row (1-indexed argument)
move_to_row(cu, row, max_rows) ==
    [cu EXCEPT !.row = Min(saturating_sub(row, 1), saturating_sub(max_rows, 1))]

\* ScreenBuffer::new
ScreenBuffer_new(rows, cols) ==
    [cells |-> blank_rows(rows, cols), cursor |-> CursorState_new,
     rows |-> rows, cols |-> cols, scrolled_lines |-> <<>>,
     alternate_active |-> FALSE, main_buffer |-> Nothing,
     main_cursor |-> Nothing]

\* the ScrollbackLine of a row: row.iter().map(|c| c.character).collect()
plain(row) == [c \in 1..Len(row) |-> row[c].character]
\* scroll_up queues the rows it drops: only outside the alternate buffer
queues_always(s) == TRUE
queues_scrolled(s) == ~s.alternate_active
\* ScreenBuffer::scroll_up
scroll_up(s, n) ==
    IF n = 0 \/ n >= Len(s.cells) THEN s
    ELSE [s EXCEPT
            !.cells = SubSeq(@, n + 1, Len(@)) \o blank_rows(n, s.cols),
            !.scrolled_lines =
                IF queues_scrolled(s)
                THEN @ \o [i \in 1..n |-> plain(s.cells[i])] ELSE @,
            !.cursor.row = IF @ >= n THEN @ - n ELSE 0]
\* ScreenBuffer::scroll_down
scroll_down(s, n) ==
    IF n = 0 \/ n >= Len(s.cells) THEN s
    ELSE [s EXCEPT
            !.cells = blank_rows(n, s.cols) \o SubSeq(@, 1, Len(@) - n),
            !.cursor.row = Min(@ + n, s.rows - 1)]

\* ScreenBuffer::put_char
put_char(s, c) ==
    LET width == char_width(c)
        nl == cursor_newline(s.cursor, s.rows)
        s1 == IF width = 2 /\ s.cursor.col + 1 >= s.cols
              THEN IF nl.scroll THEN scroll_up([s EXCEPT !.cursor = nl.cur], 1)
                   ELSE [s EXCEPT !.cursor = nl.cur]
              ELSE s
        row == s1.cursor.row
        col == s1.cursor.col
        inside == row < Len(s1.cells) /\ col < Len(s1.cells[row + 1])
        c1 == IF inside
              THEN [s1.cells EXCEPT ![row + 1][col + 1] =
                        [character |-> c, width |-> width]]
              ELSE s1.cells
        c2 == IF inside /\ width = 2 /\ col + 1 < Len(s1.cells[row + 1])
              THEN [c1 EXCEPT ![row + 1][col + 2] = continuation_cell]
              ELSE c1
        adv == advance_by(s1.cursor, width, s1.cols, s1.rows)
        s2 == [s1 EXCEPT !.cells = c2, !.cursor = adv.cur]
    IN IF adv.scroll THEN scroll_up(s2, 1) ELSE s2

\* ScreenBuffer::clear_row (row counted from 0)
clear_row(cells, row) ==
    IF row < Len(cells)
    THEN [cells EXCEPT ![row + 1] = blank_cells(Len(@))] ELSE cells
\* ScreenBuffer::erase_line_right
erase_line_right(s) ==
    LET row == s.cursor.row
        col == s.cursor.col
    IN IF row < Len(s.cells)
       THEN [s EXCEPT !.cells[row + 1] =
                [c \in 1..Len(@) |-> IF c - 1 >= col THEN default_cell ELSE @[c]]]
       ELSE s
\* ScreenBuffer::erase_line_left
erase_line_left(s) ==
    LET row == s.cursor.row
        col == s.cursor.col
    IN IF row < Len(s.cells)
       THEN [s EXCEPT !.cells[row + 1] =
                [c \in 1..Len(@) |->
                    IF c - 1 <= Min(col, saturating_sub(Len(@), 1))
                    THEN default_cell ELSE @[c]]]
       ELSE s
\* ScreenBuffer::erase_line
erase_line(s) == [s EXCEPT !.cells = clear_row(@, s.cursor.row)]
\* ScreenBuffer::erase_all
erase_all(s) ==
    [s EXCEPT !.cells = [r \in 1..Len(@) |-> blank_cells(Len(@[r]))]]
\* ScreenBuffer::erase_below
erase_below(s) ==
    LET s1 == erase_line_right(s)
    IN [s1 EXCEPT !.cells =
            [r \in 1..Len(@) |->
                IF r - 1 >= s.cursor.row + 1 THEN blank_cells(Len(@[r])) ELSE @[r]]]
\* ScreenBuffer::erase_above
erase_above(s) ==
    LET s1 == erase_line_left(s)
    IN [s1 EXCEPT !.cells =
            [r \in 1..Len(@) |->
                IF r - 1 < s.cursor.row THEN blank_cells(Len(@[r])) ELSE @[r]]]

\* the main cursor enter_alternate_buffer keeps: Some(mem::replace(..));
\* none, in the mutant
replaced_dropped(cu) == Nothing
replaced_cursor(cu) == Some(cu)
\* ScreenBuffer::enter_alternate_buffer
enter_alternate_buffer(s) ==
    IF s.alternate_active THEN s
    ELSE [s EXCEPT !.alternate_active = TRUE,
                   !.main_buffer = Some(s.cells),
                   !.cells = blank_rows(s.rows, s.cols),
                   !.main_cursor = replaced_cursor(s.cursor),
                   !.cursor = CursorState_new]
\* ScreenBuffer::exit_alternate_buffer
exit_alternate_buffer(s) ==
    IF ~s.alternate_active THEN s
    ELSE [s EXCEPT !.alternate_active = FALSE,
                   !.cells = IF s.main_buffer # Nothing THEN s.main_buffer[1]
                             ELSE @,
                   !.main_buffer = Nothing,
                   !.cursor = IF s.main_cursor # Nothing THEN s.main_cursor[1]
                              ELSE @,
                   !.main_cursor = Nothing]

\* ScreenBuffer::tab
tab(s) == [s EXCEPT !.cursor.col = Min(((@ \div 8) + 1) * 8, s.cols - 1)]
\* ScreenBuffer::backspace
backspace(s) == [s EXCEPT !.cursor = move_left(@, 1)]
\* ScreenBuffer::carriage_return
carriage_return(s) == [s EXCEPT !.cursor = cursor_carriage_return(@)]
\* ScreenBuffer::line_feed
line_feed(s) ==
    LET lf == cursor_line_feed(s.cursor, s.rows)
        s1 == [s EXCEPT !.cursor = lf.cur]
    IN IF lf.scroll THEN scroll_up(s1, 1) ELSE s1
\* ScreenBuffer::newline
newline(s) == line_feed(carriage_return(s))

\* ScreenBuffer::insert_lines
insert_lines(s, n) ==
    LET row == s.cursor.row
        len == Len(s.cells)
        remove_count == Min(n, len - row)
    IN IF row >= len THEN s
       ELSE [s EXCEPT !.cells = SubSeq(@, 1, row) \o blank_rows(remove_count, s.cols)
                                \o SubSeq(@, row + 1, len - remove_count)]
\* ScreenBuffer::delete_lines
delete_lines(s, n) ==
    LET row == s.cursor.row
        len == Len(s.cells)
        remove_count == Min(n, len - row)
    IN IF row >= len THEN s
       ELSE [s EXCEPT !.cells = SubSeq(@, 1, row)
                                \o SubSeq(@, row + remove_count + 1, len)
                                \o blank_rows(remove_count, s.cols)]
\* one round of insert_chars' loop, k times: pop the last cell, insert a
\* blank at col; without the pop in the mutant
shifted_right_no_pop(cells, col, k) ==
    SubSeq(cells, 1, col) \o blank_cells(k) \o SubSeq(cells, col + 1, Len(cells))
shifted_right(cells, col, k) ==
    SubSeq(cells, 1, col) \o blank_cells(k) \o SubSeq(cells, col + 1, Len(cells) - k)
\* ScreenBuffer::insert_chars: after len - col rounds the row no longer changes
insert_chars(s, n) ==
    LET row == s.cursor.row
        col == s.cursor.col
    IN IF row >= Len(s.cells) \/ col >= Len(s.cells[row + 1]) THEN s
       ELSE [s EXCEPT !.cells[row + 1] =
                shifted_right(@, col, Min(n, Len(@) - col))]
\* ScreenBuffer::delete_chars: after len - col rounds the row no longer changes
delete_chars(s, n) ==
    LET row == s.cursor.row
        col == s.cursor.col
    IN IF row >= Len(s.cells) \/ col >= Len(s.cells[row + 1]) THEN s
       ELSE [s EXCEPT !.cells[row + 1] =
                LET k == Min(n, Len(@) - col)
                IN SubSeq(@, 1, col) \o SubSeq(@, col + k + 1, Len(@))
                   \o blank_cells(k)]

\* ScrollbackBuffer::new
ScrollbackBuffer_new(max_lines) == [lines |-> <<>>, max_lines |-> max_lines]
\* VecDeque::pop_front, on the lines
pop_front(deque) == IF deque = <<>> THEN deque ELSE Tail(deque)
\* ScrollbackBuffer::push_line
push_line(b, line) ==
    [b EXCEPT !.lines =
        Append(IF Len(@) >= b.max_lines THEN pop_front(@) ELSE @, line)]
\* ScrollbackBuffer::push
RECURSIVE push(_, _)
push(b, scrolled) ==
    IF scrolled = <<>> THEN b
    ELSE push(push_line(b, Head(scrolled)), Tail(scrolled))

\* Params of a CSI sequence: u16 values; the parser hands over 0 for a first
\* parameter that is absent, and nothing (None) for an absent second one
ParamInputs == 0..MaxParam \cup {U16_MAX}
\* the sizes of a screen: the smallest and the largest of the run
ScreenRows == {1, MaxRows}
ScreenCols == {1, MaxCols}
\* ScreenPerformer::param: the default for an absent or zero parameter
param(p, default) == IF p = None \/ p = 0 THEN default ELSE p
\* the bytes execute() is called with: BS, HT, LF (VT and FF take its arm),
\* CR, and BEL for the arms that do nothing
ControlBytes == {"BS", "HT", "LF", "CR", "BEL"}
\* the final bytes of the CSI sequences that move the cursor
CursorActions == {"A", "B", "C", "D", "E", "F", "G", "d"}
\* the private modes of DECSET / DECRST: cursor visibility, the alternate
\* buffer (47 and 1047 share an arm) and the alternate buffer with the cursor
PrivateModes == {25, 47, 1049}
\* the final bytes esc_dispatch handles
EscBytes == {"7", "8", "D", "E", "M", "c"}

\* before TerminalState::new there is no screen and no scrollback
NoScreen == ScreenBuffer_new(0, 0)
NoBuffer == [lines |-> <<>>, max_lines |-> None]

InitEmulator ==
    /\ screen = NoScreen
    /\ scrollback = NoBuffer
    /\ emu = [fed |-> 0, panicked |-> FALSE, alt_scrolled |-> FALSE,
              entered |-> Nothing, back |-> Nothing]

\* TerminalState::new
TerminalStateNew(rows, cols, scrollback_limit) ==
    /\ screen = NoScreen
    /\ screen' = ScreenBuffer_new(rows, cols)
    /\ scrollback' = ScrollbackBuffer_new(scrollback_limit)
    /\ UNCHANGED <<emu, NotEmulator>>

\* the parser has a callback to make
Feeding == screen # NoScreen /\ ~emu.panicked /\ emu.fed < MaxFeed

\* the callback leaves the screen s, and ends with
\* ScreenPerformer::flush_scrollback if flush.  History: sc says that a
\* scroll requested by SU, LF, IND or NEL dropped a row; alt_scrolled, that
\* one did in the alternate buffer since it was last entered; entered is
\* the position the cursor had when DECSET 1049 left the main buffer, while
\* the alternate buffer has been active since; back is that position in the
\* state DECRST 1049 leaves
FedMode(s, flush, sc, entered, back) ==
    /\ screen' = IF flush THEN [s EXCEPT !.scrolled_lines = <<>>] ELSE s
    /\ scrollback' = IF flush THEN push(scrollback, s.scrolled_lines)
                     ELSE scrollback
    /\ emu' = [emu EXCEPT !.fed = @ + 1,
                          !.alt_scrolled =
                              IF screen.alternate_active THEN @ \/ sc
                              ELSE @ /\ ~s.alternate_active,
                          !.entered = entered,
                          !.back = back]
    /\ UNCHANGED NotEmulator
Fed(s, flush, sc) ==
    FedMode(s, flush, sc,
            IF screen.alternate_active /\ s.alternate_active
            THEN emu.entered ELSE Nothing,
            Nothing)

\* an addition on u16 overflowed in a build with overflow checks
Panicked ==
    /\ emu' = [emu EXCEPT !.fed = @ + 1, !.panicked = TRUE]
    /\ UNCHANGED <<screen, scrollback, NotEmulator>>

\* scroll_up(n) drops rows
drops_rows(s, n) == ~(n = 0 \/ n >= Len(s.cells))

\* Perform::print
PrintChar(c) ==
    /\ Feeding
    /\ Fed(put_char(screen, c), TRUE, FALSE)

\* Perform::execute
Execute(byte) ==
    /\ Feeding
    /\ CASE byte = "BS" -> Fed(backspace(screen), FALSE, FALSE)
         [] byte = "HT" -> Fed(tab(screen), FALSE, FALSE)
         [] byte = "LF" ->
                Fed(line_feed(screen), TRUE,
                    cursor_line_feed(screen.cursor, screen.rows).scroll
                    /\ drops_rows(screen, 1))
         [] byte = "CR" -> Fed(carriage_return(screen), FALSE, FALSE)
         [] OTHER -> Fed(screen, FALSE, FALSE)

\* csi_dispatch: CUU, CUD, CUF, CUB, CNL, CPL, CHA, VPA
CsiCursor(action, p) ==
    LET n == param(p, 1)
        cu == screen.cursor
        cu1 == CASE action = "A" -> move_up(cu, n)
                 [] action = "B" -> move_down(cu, n, screen.rows)
                 [] action = "C" -> move_right(cu, n, screen.cols)
                 [] action = "D" -> move_left(cu, n)
                 [] action = "E" ->
                        cursor_carriage_return(move_down(cu, n, screen.rows))
                 [] action = "F" -> cursor_carriage_return(move_up(cu, n))
                 [] action = "G" -> move_to_column(cu, n, screen.cols)
                 [] OTHER -> move_to_row(cu, n, screen.rows)
        overflows == \/ action \in {"B", "E"} /\ add_overflows(cu.row, n)
                     \/ action = "C" /\ add_overflows(cu.col, n)
    IN /\ Feeding
       /\ \/ Fed([screen EXCEPT !.cursor = cu1], FALSE, FALSE)
          \/ overflows /\ Panicked

\* csi_dispatch: CUP and HVP
CsiPosition(p1, p2) ==
    /\ Feeding
    /\ Fed([screen EXCEPT !.cursor =
                move_to(@, saturating_sub(param(p1, 1), 1),
                        saturating_sub(param(p2, 1), 1),
                        screen.rows, screen.cols)], FALSE, FALSE)

\* csi_dispatch: ED and EL
CsiErase(action, p) ==
    LET mode == param(p, 0)
        s == IF action = "J"
             THEN CASE mode = 0 -> erase_below(screen)
                    [] mode = 1 -> erase_above(screen)
                    [] mode \in {2, 3} -> erase_all(screen)
                    [] OTHER -> screen
             ELSE CASE mode = 0 -> erase_line_right(screen)
                    [] mode = 1 -> erase_line_left(screen)
                    [] mode = 2 -> erase_line(screen)
                    [] OTHER -> screen
    IN /\ Feeding
       /\ Fed(s, FALSE, FALSE)

\* csi_dispatch: IL, DL, ICH, DCH
CsiInsertDelete(action, p) ==
    LET n == param(p, 1)
    IN /\ Feeding
       /\ Fed(CASE action = "L" -> insert_lines(screen, n)
                [] action = "M" -> delete_lines(screen, n)
                [] action = "@" -> insert_chars(screen, n)
                [] OTHER -> delete_chars(screen, n), FALSE, FALSE)

\* csi_dispatch: SU and SD
CsiScroll(action, p) ==
    LET n == param(p, 1)
    IN /\ Feeding
       /\ IF action = "S"
          THEN Fed(scroll_up(screen, n), TRUE, drops_rows(screen, n))
          ELSE Fed(scroll_down(screen, n), FALSE, FALSE)

\* csi_dispatch: DECSET ('h') and DECRST ('l') with one private mode
CsiPrivateMode(action, mode) ==
    LET enable == action = "h"
        s == CASE mode = 25 -> screen
               [] mode = 47 ->
                      IF enable THEN enter_alternate_buffer(screen)
                      ELSE exit_alternate_buffer(screen)
               [] OTHER ->
                      IF enable
                      THEN enter_alternate_buffer(
                               [screen EXCEPT !.cursor = save(@)])
                      ELSE LET s1 == exit_alternate_buffer(screen)
                           IN [s1 EXCEPT !.cursor = restore(@)]
    IN /\ Feeding
       /\ CASE mode = 1049 /\ enable /\ ~screen.alternate_active ->
                 FedMode(s, FALSE, FALSE,
                         Some(<<screen.cursor.row, screen.cursor.col>>), Nothing)
            [] mode = 1049 /\ ~enable /\ screen.alternate_active ->
                 FedMode(s, FALSE, FALSE, Nothing, emu.entered)
            [] OTHER -> Fed(s, FALSE, FALSE)

\* csi_dispatch: 's' and 'u'
CsiSaveRestore(action) ==
    /\ Feeding
    /\ Fed([screen EXCEPT !.cursor = IF action = "s" THEN save(@) ELSE restore(@)],
           FALSE, FALSE)

\* csi_dispatch: SGR, and every sequence without an arm
CsiOther ==
    /\ Feeding
    /\ Fed(screen, FALSE, FALSE)

\* esc_dispatch: DECSC, DECRC, IND, NEL, RI, RIS
EscDispatch(byte) ==
    /\ Feeding
    /\ CASE byte = "7" -> Fed([screen EXCEPT !.cursor = save(@)], FALSE, FALSE)
         [] byte = "8" -> Fed([screen EXCEPT !.cursor = restore(@)], FALSE, FALSE)
         [] byte = "D" ->
                Fed(line_feed(screen), TRUE,
                    cursor_line_feed(screen.cursor, screen.rows).scroll
                    /\ drops_rows(screen, 1))
         [] byte = "E" ->
                Fed(newline(screen), TRUE,
                    cursor_line_feed(screen.cursor, screen.rows).scroll
                    /\ drops_rows(screen, 1))
         [] byte = "M" ->
                Fed(IF screen.cursor.row = 0 THEN scroll_down(screen, 1)
                    ELSE [screen EXCEPT !.cursor = move_up(@, 1)], FALSE, FALSE)
         [] OTHER ->
                /\ screen' = ScreenBuffer_new(screen.rows, screen.cols)
                /\ emu' = [emu EXCEPT !.fed = @ + 1, !.alt_scrolled = FALSE,
                                      !.entered = Nothing, !.back = Nothing]
                /\ UNCHANGED <<scrollback, NotEmulator>>

NextEmulator ==
    \/ \E rows \in ScreenRows, cols \in ScreenCols :
           TerminalStateNew(rows, cols, MaxLimit)
    \/ \E c \in Chars : PrintChar(c)
    \/ \E byte \in ControlBytes : Execute(byte)
    \/ \E action \in CursorActions, p \in ParamInputs : CsiCursor(action, p)
    \/ \E p1 \in ParamInputs, p2 \in ParamInputs \cup {None} :
           CsiPosition(p1, p2)
    \/ \E action \in {"J", "K"}, p \in ParamInputs \cup {2} : CsiErase(action, p)
    \/ \E action \in {"L", "M", "@", "P"}, p \in ParamInputs :
           CsiInsertDelete(action, p)
    \/ \E action \in {"S", "T"}, p \in ParamInputs : CsiScroll(action, p)
    \/ \E action \in {"h", "l"}, mode \in PrivateModes :
           CsiPrivateMode(action, mode)
    \/ \E action \in {"s", "u"} : CsiSaveRestore(action)
    \/ CsiOther
    \/ \E byte \in EscBytes : EscDispatch(byte)

(***************************************************************************)
(* SpecScrollback: one ScrollbackBuffer and the lines pushed to it.        *)
(***************************************************************************)
\* the texts of the lines pushed
LineTexts == {"x", "y"}

InitScrollback ==
    /\ sbuf = NoBuffer
    /\ pushed = <<>>

\* ScrollbackBuffer::new
ScrollbackNew(max_lines) ==
    /\ sbuf = NoBuffer
    /\ sbuf' = ScrollbackBuffer_new(max_lines)
    /\ UNCHANGED <<pushed, NotScrollback>>

\* ScrollbackBuffer::push_line
PushLine(line) ==
    /\ sbuf # NoBuffer
    /\ Len(pushed) < MaxPushes
    /\ sbuf' = push_line(sbuf, line)
    /\ pushed' = Append(pushed, line)
    /\ UNCHANGED NotScrollback

NextScrollback ==
    \/ \E max_lines \in 0..MaxLimit : ScrollbackNew(max_lines)
    \/ \E line \in LineTexts : PushLine(line)

(***************************************************************************)
(* SpecAnsi, SpecPrompt: one call of strip_ansi, of PromptDetector::detect *)
(* with the default pattern, on a string of at most MaxText characters.    *)
(***************************************************************************)
\* the strings of at most MaxText characters over an alphabet
Texts(alphabet) == UNION {[1..n -> alphabet] : n \in 0..MaxText}
\* the characters strip_ansi tells apart: a letter (which ends a CSI
\* sequence), a digit, ESC, the openers of CSI and OSC, BEL and the
\* backslash of ST
AnsiChars == {"a", "1", "esc", "[", "]", "bel", "\\"}
\* the characters detect tells apart: a prompt character, a letter, a space,
\* a line feed
PromptChars == {"$", "a", "sp", "nl"}

NoCall == [pc |-> "idle"]

InitCalls ==
    /\ strip = NoCall
    /\ det = NoCall
    /\ enc = NoCall
    /\ cod = NoCall

\* strip_ansi(input), and strip_ansi of its result
StripAnsi(input) ==
    /\ strip = NoCall
    /\ strip' = [pc |-> "done", input |-> input, output |-> strip_ansi(input),
                 again |-> strip_ansi(strip_ansi(input))]
    /\ UNCHANGED NotAnsi

NextAnsi == \E input \in Texts(AnsiChars) : StripAnsi(input)

\* PromptDetector::detect(content)
Detect(content) ==
    /\ det = NoCall
    /\ det' = [pc |-> "done", content |-> content, detected |-> detect(content)]
    /\ UNCHANGED NotPrompt

NextPrompt == \E content \in Texts(PromptChars) : Detect(content)

(***************************************************************************)
(* SpecKeys: one call of KeyInput::encode.  Bytes and characters are their *)
(* ASCII codes.                                                            *)
(***************************************************************************)
\* b'\x1b'
ESC == 27
\* the SpecialKey variants
SpecialKeys ==
    {"Up", "Down", "Left", "Right", "Home", "End", "PageUp", "PageDown",
     "Backspace", "Delete", "Insert", "Tab", "Enter", "Escape",
     "F1", "F2", "F3", "F4", "F5", "F6", "F7", "F8", "F9", "F10", "F11", "F12"}
\* KeyInput.key: Option<SpecialKey>
KeyOptions == SpecialKeys \cup {"NoKey"}
\* KeyInput.text: Option<String>; the strings "c", "1" and "c1"
TextOptions == {Nothing, Some(<<99>>), Some(<<49>>), Some(<<99, 49>>)}

\* SpecialKey::base_sequence
base_sequence(key) ==
    CASE key = "Up" -> <<ESC, 91, 65>>
      [] key = "Down" -> <<ESC, 91, 66>>
      [] key = "Right" -> <<ESC, 91, 67>>
      [] key = "Left" -> <<ESC, 91, 68>>
      [] key = "Home" -> <<ESC, 91, 72>>
      [] key = "End" -> <<ESC, 91, 70>>
      [] key = "PageUp" -> <<ESC, 91, 53, 126>>
      [] key = "PageDown" -> <<ESC, 91, 54, 126>>
      [] key = "Insert" -> <<ESC, 91, 50, 126>>
      [] key = "Delete" -> <<ESC, 91, 51, 126>>
      [] key = "Backspace" -> <<127>>
      [] key = "Tab" -> <<9>>
      [] key = "Enter" -> <<13>>
      [] key = "Escape" -> <<ESC>>
      [] key = "F1" -> <<ESC, 79, 80>>
      [] key = "F2" -> <<ESC, 79, 81>>
      [] key = "F3" -> <<ESC, 79, 82>>
      [] key = "F4" -> <<ESC, 79, 83>>
      [] key = "F5" -> <<ESC, 91, 49, 53, 126>>
      [] key = "F6" -> <<ESC, 91, 49, 55, 126>>
      [] key = "F7" -> <<ESC, 91, 49, 56, 126>>
      [] key = "F8" -> <<ESC, 91, 49, 57, 126>>
      [] key = "F9" -> <<ESC, 91, 50, 48, 126>>
      [] key = "F10" -> <<ESC, 91, 50, 49, 126>>
      [] key = "F11" -> <<ESC, 91, 50, 51, 126>>
      [] OTHER -> <<ESC, 91, 50, 52, 126>>
\* SpecialKey::supports_modifiers
supports_modifiers(key) ==
    key \in {"Up", "Down", "Left", "Right", "Home", "End", "PageUp",
             "PageDown", "Insert", "Delete", "F1", "F2", "F3", "F4", "F5",
             "F6", "F7", "F8", "F9", "F10", "F11", "F12"}

\* Display for u8: the decimal digits
RECURSIVE decimal(_)
decimal(n) == IF n < 10 THEN <<48 + n>> ELSE decimal(n \div 10) \o <<48 + (n % 10)>>
\* format!("\x1b[{number};{}{final}", modifier_code)
format_modified(number, modifier_code, final) ==
    <<ESC, 91>> \o number \o <<59>> \o decimal(modifier_code) \o <<final>>

\* KeyInput::modifier_code; with the weights of alt and ctrl exchanged in the
\* mutant
modifier_code_exchanged(k) ==
    1 + (IF k.shift THEN 1 ELSE 0) + (IF k.alt THEN 4 ELSE 0)
      + (IF k.ctrl THEN 2 ELSE 0)
modifier_code(k) ==
    1 + (IF k.shift THEN 1 ELSE 0) + (IF k.alt THEN 2 ELSE 0)
      + (IF k.ctrl THEN 4 ELSE 0)

\* Result<Vec<u8>>
OkBytes(b) == [ok |-> TRUE, bytes |-> b]
NoInput == [ok |-> FALSE, bytes |-> <<>>]

\* KeyInput::encode_special_key
encode_special_key(k, key) ==
    LET m == modifier_code(k) IN
    IF m = 1 THEN OkBytes(base_sequence(key))
    ELSE IF ~supports_modifiers(key) THEN OkBytes(base_sequence(key))
    ELSE OkBytes(
        CASE key = "Up" -> format_modified(<<49>>, m, 65)
          [] key = "Down" -> format_modified(<<49>>, m, 66)
          [] key = "Right" -> format_modified(<<49>>, m, 67)
          [] key = "Left" -> format_modified(<<49>>, m, 68)
          [] key = "Home" -> format_modified(<<49>>, m, 72)
          [] key = "End" -> format_modified(<<49>>, m, 70)
          [] key = "PageUp" -> format_modified(<<53>>, m, 126)
          [] key = "PageDown" -> format_modified(<<54>>, m, 126)
          [] key = "Insert" -> format_modified(<<50>>, m, 126)
          [] key = "Delete" -> format_modified(<<51>>, m, 126)
          [] key = "F1" -> format_modified(<<49>>, m, 80)
          [] key = "F2" -> format_modified(<<49>>, m, 81)
          [] key = "F3" -> format_modified(<<49>>, m, 82)
          [] key = "F4" -> format_modified(<<49>>, m, 83)
          [] key = "F5" -> format_modified(<<49, 53>>, m, 126)
          [] key = "F6" -> format_modified(<<49, 55>>, m, 126)
          [] key = "F7" -> format_modified(<<49, 56>>, m, 126)
          [] key = "F8" -> format_modified(<<49, 57>>, m, 126)
          [] key = "F9" -> format_modified(<<50, 48>>, m, 126)
          [] key = "F10" -> format_modified(<<50, 49>>, m, 126)
          [] key = "F11" -> format_modified(<<50, 51>>, m, 126)
          [] key = "F12" -> format_modified(<<50, 52>>, m, 126)
          [] OTHER -> base_sequence(key))

\* char::is_ascii_alphabetic, on a character code
is_ascii_letter(c) == c \in 65..90 \/ c \in 97..122
\* char::to_ascii_uppercase, on a character code
to_ascii_uppercase(c) == IF c \in 97..122 THEN c - 32 ELSE c
\* (c.to_ascii_uppercase() as u8) - b'A' + 1
ctrl_code(c) == to_ascii_uppercase(c) - 65 + 1
\* encode's loop over the characters of text
RECURSIVE encode_text(_, _)
encode_text(k, text) ==
    IF text = <<>> THEN <<>>
    ELSE (IF k.alt THEN <<ESC>> ELSE <<>>)
         \o <<IF k.ctrl /\ is_ascii_letter(Head(text)) THEN ctrl_code(Head(text))
              ELSE Head(text)>>
         \o encode_text(k, Tail(text))
\* KeyInput::encode
encode(k) ==
    IF /\ k.ctrl /\ ~k.alt /\ k.key = "NoKey"
       /\ k.text # Nothing /\ Len(k.text[1]) = 1 /\ is_ascii_letter(k.text[1][1])
    THEN OkBytes(<<ctrl_code(k.text[1][1])>>)
    ELSE IF k.key # "NoKey" THEN encode_special_key(k, k.key)
    ELSE IF k.text # Nothing THEN OkBytes(encode_text(k, k.text[1]))
    ELSE NoInput

\* KeyInput::encode on one KeyInput
Encode(key, text, ctrl, alt, shift) ==
    LET k == [key |-> key, text |-> text, ctrl |-> ctrl, alt |-> alt,
              shift |-> shift]
    IN /\ enc = NoCall
       /\ enc' = [pc |-> "done", input |-> k, result |-> encode(k)]
       /\ UNCHANGED NotKeys

NextKeys ==
    \E key \in KeyOptions, text \in TextOptions,
       ctrl \in BOOLEAN, alt \in BOOLEAN, shift \in BOOLEAN :
        Encode(key, text, ctrl, alt, shift)

(***************************************************************************)
(* SpecLocking: the locks of session/manager.rs and of the tool handlers.  *)
(* A handler that waits for a lock stays where it is until the lock's      *)
(* guard holds.  A lock that is taken and released within one statement,   *)
(* with nothing awaited in between, is one step.                           *)
(***************************************************************************)
Handlers == 1..NumHandlers
LockSessions == 1..NumLockSessions

\* RwLock::read / RwLock::write can be granted to handler t
read_granted(m, t) == m.w = None
write_granted(m, t) == m.w = None /\ m.r = {}
\* Mutex::lock can be granted: nobody holds the lock; whoever holds it, in
\* the mutant
lock_granted_always(holder) == TRUE
lock_granted(holder) == holder = None
\* manager.get: the read guard is a temporary, dropped at the end of the
\* statement
guard_dropped(readers, t) == readers \ {t}

\* where read, send, info and wait_ready go once they hold the session lock:
\* on to the session; back to manager.get, in the mutant
after_lock_get == "u_get"
after_lock == "u_held"

IdleHandler == [pc |-> "idle", id |-> None, todo |-> {}, rm |-> {}]

InitLocking ==
    /\ lmap = [ids |-> {}, made |-> {}, w |-> None, r |-> {}]
    /\ lsess = [s \in LockSessions |->
                   [holder |-> None, queued |-> 0, mid |-> FALSE,
                    child |-> "running"]]
    /\ hd = [t \in Handlers |-> IdleHandler]
    /\ torn = FALSE

\* the reader thread of session s sends a chunk on the reader channel
ReaderSends(s) ==
    /\ s \in lmap.made
    /\ lsess[s].queued < MaxQueued
    /\ lsess' = [lsess EXCEPT ![s].queued = @ + 1]
    /\ UNCHANGED <<NotLocking, lmap, hd, torn>>

\* create_session: self.sessions.read().await.len(), the limit check, and
\* TerminalSession::new
LockCreateCount(t) ==
    /\ hd[t].pc = "idle"
    /\ read_granted(lmap, t)
    /\ Cardinality(lmap.made) + Cardinality({u \in Handlers : hd[u].pc = "c_insert"})
           < NumLockSessions
    /\ hd' = [hd EXCEPT ![t].pc = "c_insert"]
    /\ UNCHANGED <<NotLocking, lmap, lsess, torn>>

\* create_session: self.sessions.write().await.insert(id, session); the
\* handler then returns (ready FALSE) or goes on to wait for the prompt:
\* manager.get of the new session
LockCreateInsert(t, s, ready) ==
    /\ hd[t].pc = "c_insert"
    /\ write_granted(lmap, t)
    /\ s \notin lmap.made
    /\ lmap' = [lmap EXCEPT !.ids = @ \cup {s}, !.made = @ \cup {s}]
    /\ hd' = [hd EXCEPT ![t] = IF ready THEN [@ EXCEPT !.pc = "u_get", !.id = s]
                               ELSE IdleHandler]
    /\ UNCHANGED <<NotLocking, lsess, torn>>

\* read, send, info: a request for session s arrives
LockUseStart(t, s) ==
    /\ hd[t].pc = "idle"
    /\ s \in lmap.made
    /\ hd' = [hd EXCEPT ![t].pc = "u_get", ![t].id = s]
    /\ UNCHANGED <<NotLocking, lmap, lsess, torn>>

\* read, send, info, wait_ready: manager.get(id): the Arc is cloned under the
\* read lock, or SessionNotFound and the handler returns
LockUseGet(t) ==
    /\ hd[t].pc = "u_get"
    /\ read_granted(lmap, t)
    /\ lmap' = [lmap EXCEPT !.r = guard_dropped(@ \cup {t}, t)]
    /\ hd' = [hd EXCEPT ![t] = IF hd[t].id \in lmap.ids
                               THEN [@ EXCEPT !.pc = "u_lock"] ELSE IdleHandler]
    /\ UNCHANGED <<NotLocking, lsess, torn>>

\* read, send, info, wait_ready: session.lock().await
LockUseLock(t) ==
    /\ hd[t].pc = "u_lock"
    /\ lock_granted(lsess[hd[t].id].holder)
    /\ lsess' = [lsess EXCEPT ![hd[t].id].holder = t]
    /\ hd' = [hd EXCEPT ![t].pc = after_lock]
    /\ UNCHANGED <<NotLocking, lmap, torn>>

\* drain_reader: a chunk is taken from the reader channel and
\* process_output starts on it
LockDrainBegin(t) ==
    /\ hd[t].pc = "u_held"
    /\ lsess[hd[t].id].queued > 0
    /\ lsess' = [lsess EXCEPT ![hd[t].id].queued = @ - 1, ![hd[t].id].mid = TRUE]
    /\ hd' = [hd EXCEPT ![t].pc = "u_chunk"]
    /\ UNCHANGED <<NotLocking, lmap, torn>>

\* drain_reader: process_output has processed the whole chunk
LockDrainEnd(t) ==
    /\ hd[t].pc = "u_chunk"
    /\ lsess' = [lsess EXCEPT ![hd[t].id].mid = FALSE]
    /\ hd' = [hd EXCEPT ![t].pc = "u_held"]
    /\ UNCHANGED <<NotLocking, lmap, torn>>

\* read, send, info, wait_ready: the state of the session is read (rendered)
\* and the handler returns: the session guard is dropped, and the map guard
\* if the handler still has it
LockUseReturn(t) ==
    /\ hd[t].pc = "u_held"
    /\ torn' = (torn \/ lsess[hd[t].id].mid)
    /\ lsess' = [lsess EXCEPT ![hd[t].id].holder = None]
    /\ lmap' = [lmap EXCEPT !.r = @ \ {t}]
    /\ hd' = [hd EXCEPT ![t] = IdleHandler]
    /\ UNCHANGED NotLocking

\* destroy_session: self.sessions.write().await.remove(id), or
\* SessionNotFound
LockDestroyRemove(t, s) ==
    /\ hd[t].pc = "idle"
    /\ s \in lmap.made
    /\ write_granted(lmap, t)
    /\ lmap' = [lmap EXCEPT !.ids = @ \ {s}]
    /\ hd' = [hd EXCEPT ![t] = IF s \in lmap.ids
                               THEN [@ EXCEPT !.pc = "d_lock", !.id = s]
                               ELSE IdleHandler]
    /\ UNCHANGED <<NotLocking, lsess, torn>>

\* the child of session s exits by itself
LockChildExits(s) ==
    /\ s \in lmap.made
    /\ lsess[s].child = "running"
    /\ lsess' = [lsess EXCEPT ![s].child = "dead"]
    /\ UNCHANGED <<NotLocking, lmap, hd, torn>>

\* PtySession::terminate(force) up to child.wait(): the child is gone after
\* kill(), and after SIGTERM if it heeds the signal
terminated(c, force, heeds) == IF force \/ heeds THEN "dead" ELSE c

\* destroy_session: session.lock().await, terminate(force): the signal is
\* sent and child.wait() returns if the child is gone (the handler returns),
\* or blocks, under the session lock
LockDestroyTerminate(t, force, heeds) ==
    LET s == hd[t].id
        c == terminated(lsess[s].child, force, heeds)
    IN /\ hd[t].pc = "d_lock"
       /\ lock_granted(lsess[s].holder)
       /\ torn' = (torn \/ lsess[s].mid)
       /\ lsess' = [lsess EXCEPT ![s].child = c,
                                 ![s].holder = IF c = "dead" THEN @ ELSE t]
       /\ hd' = [hd EXCEPT ![t] = IF c = "dead" THEN IdleHandler
                                  ELSE [@ EXCEPT !.pc = "d_wait"]]
       /\ UNCHANGED <<NotLocking, lmap>>

\* destroy_session: child.wait() returns once the child has exited
LockDestroyWait(t) ==
    /\ hd[t].pc = "d_wait"
    /\ lsess[hd[t].id].child = "dead"
    /\ lsess' = [lsess EXCEPT ![hd[t].id].holder = None]
    /\ hd' = [hd EXCEPT ![t] = IdleHandler]
    /\ UNCHANGED <<NotLocking, lmap, torn>>

\* list, cleanup_exited: self.sessions.read().await, kept over the loop
LockScanStart(t, cleanup) ==
    /\ hd[t].pc = "idle"
    /\ lmap.made # {}
    /\ read_granted(lmap, t)
    /\ lmap' = [lmap EXCEPT !.r = @ \cup {t}]
    /\ hd' = [hd EXCEPT ![t].pc = IF cleanup THEN "k_scan" ELSE "l_scan",
                        ![t].todo = lmap.ids]
    /\ UNCHANGED <<NotLocking, lsess, torn>>

\* list, cleanup_exited: one session of the loop: session.lock().await, its
\* info or exited() is read (cleanup_exited notes it if it has exited), the
\* guard is dropped at the end of the iteration
LockScan(t, s, exited) ==
    /\ hd[t].pc \in {"l_scan", "k_scan"}
    /\ s \in hd[t].todo
    /\ exited => lsess[s].child = "dead"
    /\ lock_granted(lsess[s].holder)
    /\ torn' = (torn \/ lsess[s].mid)
    /\ hd' = [hd EXCEPT ![t].todo = @ \ {s},
                        ![t].rm = IF hd[t].pc = "k_scan" /\ exited
                                  THEN @ \cup {s} ELSE @]
    /\ UNCHANGED <<NotLocking, lmap, lsess>>

\* list, cleanup_exited: the loop is over, the read guard is dropped; list
\* returns, and so does cleanup_exited with nothing to remove
LockScanEnd(t) ==
    /\ hd[t].pc \in {"l_scan", "k_scan"}
    /\ hd[t].todo = {}
    /\ lmap' = [lmap EXCEPT !.r = @ \ {t}]
    /\ hd' = [hd EXCEPT ![t] = IF hd[t].rm = {} THEN IdleHandler
                               ELSE [@ EXCEPT !.pc = "k_remove"]]
    /\ UNCHANGED <<NotLocking, lsess, torn>>

\* cleanup_exited: self.sessions.write().await, the noted ids are removed
LockCleanupRemove(t) ==
    /\ hd[t].pc = "k_remove"
    /\ write_granted(lmap, t)
    /\ lmap' = [lmap EXCEPT !.ids = @ \ hd[t].rm]
    /\ hd' = [hd EXCEPT ![t] = IdleHandler]
    /\ UNCHANGED <<NotLocking, lsess, torn>>

\* shutdown: self.sessions.write().await, kept over the drain
LockShutdownStart(t) ==
    /\ hd[t].pc = "idle"
    /\ lmap.made # {}
    /\ write_granted(lmap, t)
    /\ lmap' = [lmap EXCEPT !.w = t]
    /\ hd' = [hd EXCEPT ![t].pc = "s_drain", ![t].todo = lmap.ids]
    /\ UNCHANGED <<NotLocking, lsess, torn>>

\* shutdown: one session of sessions.drain(): session.lock().await,
\* terminate(false): child.wait() returns if the child is gone (the guard
\* and the Arc are dropped), or blocks, under the session lock and the map's
\* write lock
LockShutdownDrain(t, s, heeds) ==
    LET c == terminated(lsess[s].child, FALSE, heeds)
    IN /\ hd[t].pc = "s_drain"
       /\ s \in hd[t].todo
       /\ lock_granted(lsess[s].holder)
       /\ torn' = (torn \/ lsess[s].mid)
       /\ lsess' = [lsess EXCEPT ![s].child = c,
                                 ![s].holder = IF c = "dead" THEN @ ELSE t]
       /\ lmap' = [lmap EXCEPT !.ids = @ \ {s}]
       /\ hd' = [hd EXCEPT ![t] = IF c = "dead" THEN [@ EXCEPT !.todo = @ \ {s}]
                                  ELSE [@ EXCEPT !.pc = "s_wait", !.id = s]]
       /\ UNCHANGED NotLocking

\* shutdown: child.wait() returns once the child has exited
LockShutdownWait(t) ==
    /\ hd[t].pc = "s_wait"
    /\ lsess[hd[t].id].child = "dead"
    /\ lsess' = [lsess EXCEPT ![hd[t].id].holder = None]
    /\ hd' = [hd EXCEPT ![t].pc = "s_drain", ![t].id = None,
                        ![t].todo = @ \ {hd[t].id}]
    /\ UNCHANGED <<NotLocking, lmap, torn>>

\* shutdown: the drain is over, the write guard is dropped
LockShutdownEnd(t) ==
    /\ hd[t].pc = "s_drain"
    /\ hd[t].todo = {}
    /\ lmap' = [lmap EXCEPT !.w = None]
    /\ hd' = [hd EXCEPT ![t] = IdleHandler]
    /\ UNCHANGED <<NotLocking, lsess, torn>>

\* the next step of handler t, once its request has arrived
Continue(t) ==
    \/ \E s \in LockSessions, ready \in BOOLEAN : LockCreateInsert(t, s, ready)
    \/ LockUseGet(t)
    \/ LockUseLock(t)
    \/ LockDrainBegin(t)
    \/ LockDrainEnd(t)
    \/ LockUseReturn(t)
    \/ \E force \in BOOLEAN, heeds \in BOOLEAN :
           LockDestroyTerminate(t, force, heeds)
    \/ LockDestroyWait(t)
    \/ \E s \in LockSessions, exited \in BOOLEAN : LockScan(t, s, exited)
    \/ LockScanEnd(t)
    \/ LockCleanupRemove(t)
    \/ \E s \in LockSessions, heeds \in BOOLEAN : LockShutdownDrain(t, s, heeds)
    \/ LockShutdownWait(t)
    \/ LockShutdownEnd(t)

NextLocking ==
    \/ \E s \in LockSessions : ReaderSends(s)
    \/ \E s \in LockSessions : LockChildExits(s)
    \/ \E t \in Handlers : LockCreateCount(t)
    \/ \E t \in Handlers, s \in LockSessions : LockUseStart(t, s)
    \/ \E t \in Handlers, s \in LockSessions : LockDestroyRemove(t, s)
    \/ \E t \in Handlers, cleanup \in BOOLEAN : LockScanStart(t, cleanup)
    \/ \E t \in Handlers : LockShutdownStart(t)
    \/ \E t \in Handlers : Continue(t)

(***************************************************************************)
(* SpecCodec: socket/protocol.rs, Message::encode and Message::decode.     *)
(* Bytes are numbers; a String is the sequence of its UTF-8 bytes (ASCII    *)
(* here).  Of a SessionInfoPayload only the screen is kept: the other       *)
(* fields are serialized the same way.                                      *)
(***************************************************************************)
\* the bytes a payload is made of: NUL, the quote and the backslash (which
\* JSON escapes), and a letter
PayloadBytes == {0, 34, 92, 97}
\* the bytes of the strings: no NUL
StringBytes == PayloadBytes \ {0}
\* the payloads and strings of at most MaxPayload bytes
Payloads(alphabet) == UNION {[1..n -> alphabet] : n \in 0..MaxPayload}
\* u16 values: the ends, and the values around a byte boundary
U16Values == {0, 1, 255, 256, U16_MAX}

\* Message
Output(data) == [type |-> "Output", data |-> data]
Input(data) == [type |-> "Input", data |-> data]
ResizeMsg(rows, cols) == [type |-> "Resize", rows |-> rows, cols |-> cols]
Info(screen_text) == [type |-> "Info", screen |-> screen_text]
Close(reason) == [type |-> "Close", reason |-> reason]

Messages ==
    {Output(p) : p \in Payloads(PayloadBytes)} \cup
    {Input(p) : p \in Payloads(PayloadBytes)} \cup
    {ResizeMsg(r, c) : r \in U16Values, c \in U16Values} \cup
    {Info(t) : t \in Payloads(StringBytes)} \cup
    {Close(Nothing)} \cup {Close(Some(t)) : t \in Payloads(StringBytes)}

\* Message::msg_type
msg_type(m) ==
    CASE m.type = "Output" -> MSG_OUTPUT
      [] m.type = "Input" -> MSG_INPUT
      [] m.type = "Resize" -> MSG_RESIZE
      [] m.type = "Info" -> MSG_INFO
      [] OTHER -> MSG_CLOSE

\* u16::to_be_bytes, u16::from_be_bytes, u32::to_be_bytes
u16_to_be_bytes(n) == <<n \div 256, n % 256>>
u16_from_be_bytes(b) == b[1] * 256 + b[2]
u32_to_be_bytes(n) ==
    <<n \div 16777216, (n \div 65536) % 256, (n \div 256) % 256, n % 256>>

\* serde_json, a string: quoted, the quote and the backslash escaped by a
\* backslash
RECURSIVE json_escape(_)
json_escape(t) ==
    IF t = <<>> THEN <<>>
    ELSE (IF Head(t) \in {34, 92} THEN <<92, Head(t)>> ELSE <<Head(t)>>)
         \o json_escape(Tail(t))
\* serde_json::to_vec(info)
to_vec(info) == <<34>> \o json_escape(info.screen) \o <<34>>
\* serde_json, a string is read: the text so far and the bytes left; the
\* result is the text once the closing quote ends the input, Nothing for
\* anything else
RECURSIVE json_string(_, _)
json_string(text, left) ==
    IF left = <<>> THEN Nothing
    ELSE IF Head(left) = 34
         THEN IF Tail(left) = <<>> THEN Some(text) ELSE Nothing
    ELSE IF Head(left) = 92
         THEN IF Tail(left) # <<>> /\ Head(Tail(left)) \in {34, 92}
              THEN json_string(Append(text, Head(Tail(left))), Tail(Tail(left)))
              ELSE Nothing
    ELSE json_string(Append(text, Head(left)), Tail(left))
\* serde_json::from_slice(&payload)
from_slice(payload) ==
    IF payload # <<>> /\ Head(payload) = 34
    THEN json_string(<<>>, Tail(payload)) ELSE Nothing

\* Message::encode, the payload
encode_payload(m) ==
    CASE m.type \in {"Output", "Input"} -> m.data
      [] m.type = "Resize" -> u16_to_be_bytes(m.rows) \o u16_to_be_bytes(m.cols)
      [] m.type = "Info" -> to_vec(m)
      [] OTHER -> IF m.reason # Nothing THEN m.reason[1] ELSE <<>>
\* Message::encode: Ok(frame), or PayloadTooLarge
encode_message(m) ==
    LET payload == encode_payload(m) IN
    IF Len(payload) > MAX_PAYLOAD_SIZE THEN Err("PayloadTooLarge")
    ELSE [ok |-> TRUE,
          is |-> <<msg_type(m)>> \o u32_to_be_bytes(Len(payload)) \o payload]

\* Message::decode, with the message it gives
decode_message(type, payload) ==
    CASE type = MSG_OUTPUT -> [ok |-> TRUE, is |-> Output(payload)]
      [] type = MSG_INPUT -> [ok |-> TRUE, is |-> Input(payload)]
      [] type = MSG_RESIZE ->
            IF Len(payload) # 4 THEN Err("InvalidPayload")
            ELSE [ok |-> TRUE,
                  is |-> ResizeMsg(u16_from_be_bytes(SubSeq(payload, 1, 2)),
                                   u16_from_be_bytes(SubSeq(payload, 3, 4)))]
      [] type = MSG_INFO ->
            IF from_slice(payload) = Nothing THEN Err("InvalidPayload")
            ELSE [ok |-> TRUE, is |-> Info(from_slice(payload)[1])]
      [] type = MSG_CLOSE ->
            [ok |-> TRUE,
             is |-> Close(IF payload = <<>> THEN Nothing ELSE Some(payload))]
      [] OTHER -> Err("UnknownType")

\* Message::encode is called on m
EncodeMessage(m) ==
    /\ cod.pc = "idle"
    /\ cod' = [pc |-> "encoded", m |-> m, frame |-> encode_message(m)]
    /\ UNCHANGED NotCodec

\* Message::decode is called on the type byte and the payload of the frame
DecodeFrame ==
    /\ cod.pc = "encoded"
    /\ cod.frame.ok
    /\ cod' = [pc |-> "decoded", m |-> cod.m, frame |-> cod.frame,
               result |-> decode_message(cod.frame.is[1],
                                         SubSeq(cod.frame.is, HEADER_SIZE + 1,
                                                Len(cod.frame.is)))]
    /\ UNCHANGED NotCodec

NextCodec ==
    \/ \E m \in Messages : EncodeMessage(m)
    \/ DecodeFrame

Init == InitSession /\ InitWriter /\ InitAttach /\ InitManager /\ InitRead /\
        InitProto /\ InitEmulator /\ InitScrollback /\ InitCalls /\
        InitLocking /\ InitStream

SpecSession == Init /\ [][NextSession]_vars
SpecWriter == Init /\ [][NextWriter]_vars
SpecAttach == Init /\ [][NextAttach]_vars
SpecManager == Init /\ [][NextManager]_vars
SpecRead == Init /\ [][NextRead]_vars
SpecProtocol == Init /\ [][NextProto]_vars
SpecEmulator == Init /\ [][NextEmulator]_vars
SpecScrollback == Init /\ [][NextScrollback]_vars
SpecAnsi == Init /\ [][NextAnsi]_vars
SpecPrompt == Init /\ [][NextPrompt]_vars
SpecKeys == Init /\ [][NextKeys]_vars
SpecLocking == Init /\ [][NextLocking]_vars
SpecCodec == Init /\ [][NextCodec]_vars
SpecStream == Init /\ [][NextStream]_vars
\* the tasks of the server go on while they can; what a client sends, and
\* when, is up to the client
SpecAttachLive ==
    /\ SpecAttach
    /\ \A c \in Conns :
          WF_vars(WriteInfo(c)) /\ WF_vars(Forward(c)) /\ WF_vars(HandlerReturn(c))
\* the handlers go on while they can, the locks are fair, and a read returns
\* at its deadline
SpecLockingLive ==
    /\ SpecLocking
    /\ \A t \in Handlers : SF_vars(Continue(t)) /\ SF_vars(LockUseReturn(t))
\* the handler is a running task: a step it can take again and again, it
\* takes (a write goes through when the PTY has room); time passes; the
\* child, the senders and the attach clients owe nothing
SpecReadLive == Init /\ [][NextRead]_vars /\ SF_vars(ReadHandler) /\ WF_vars(Tick)

(***************************************************************************)
(* The claims.                                                             *)
(***************************************************************************)

\* C2: at every moment the chunks fed to the emulator, and those appended to
\* the output tracker, are a prefix of the chunks the reader thread read from
\* the PTY: none lost, duplicated or reordered, also after the reader has
\* waited on a full channel.
C2_FedIsPrefixOfWire ==
    /\ IsPrefix(sess.fed, wire)
    /\ sess.tracked = sess.fed

\* C2, witness: the reader thread has waited on a full channel, and every
\* chunk of the run has reached the emulator.
C2_Witness ==
    /\ reader.blocked
    /\ Len(wire) = MaxChunks
    /\ sess.fed = wire

\* C3 as stated: once a drain has handled the reader's Eof of a child that
\* exited by itself with code K, the session is exited with exit_code Some(K).
C3_ExitCodePropagated ==
    (h.eofHandled /\ child.self) =>
        (sess.exited /\ sess.exit_code = child.code)

\* C4: the status of a session only moves forward: exited stays true, a set
\* error stays set, and healthy (error is none and not exited) never goes
\* from false back to true.
C4_StatusMovesForward ==
    [][/\ sess.exited => sess'.exited
       /\ sess.error => sess'.error
       /\ ~is_healthy(sess) => ~is_healthy(sess')]_vars

\* C4, witness: a session that went through both steps: errored, then exited,
\* and a terminate was called on it.
C4_Witness ==
    /\ sess.error
    /\ sess.exited
    /\ reader.shutdown
    /\ ~is_healthy(sess)

\* C10: the bytes of each write reach the PTY as one contiguous block, in
\* their order: the payloads of two writes are never interleaved.
C10_WritesContiguous ==
    \A i \in 1..Len(ptyIn) : \A k \in i..Len(ptyIn) :
        ptyIn[i][1] = ptyIn[k][1] =>
            /\ \A j \in i..k : ptyIn[j][1] = ptyIn[i][1]
            /\ ptyIn[k][2] = ptyIn[i][2] + (k - i)

\* C10, witness: a socket-input write waited for the writer while a send held
\* it, and the whole payloads of both are in the PTY input.
C10_Witness ==
    /\ drn.waited
    /\ \E t \in Senders : \E w \in SocketWrites :
        \A b \in 1..PayloadLen :
            /\ \E i \in 1..Len(ptyIn) : ptyIn[i] = <<t, b>>
            /\ \E i \in 1..Len(ptyIn) : ptyIn[i] = <<w, b>>

\* the chunks of the Output frames written to connection c, in order
Outputs(c) ==
    LET f == cl[c].frames
        RECURSIVE Pick(_)
        Pick(i) == IF i > Len(f) THEN <<>>
                   ELSE IF f[i].type = "Output" THEN <<f[i].chunk>> \o Pick(i + 1)
                   ELSE Pick(i + 1)
    IN Pick(1)

\* C8: on every connection the server serves, Info is written exactly once,
\* as the first frame; no Output (or Close) frame is written before it, also
\* when chunks are broadcast while the client is connecting.
C8_InfoFirstAndOnce ==
    \A c \in Conns :
        LET f == cl[c].frames IN
        /\ f # <<>> => f[1] = InfoFrame
        /\ \A i \in 2..Len(f) : f[i] # InfoFrame
        /\ cl[c].pc = "run" => f # <<>>
        /\ cl[c].pc \in {"none", "info"} => f = <<>>

\* C8, witness: a chunk was broadcast after the client had subscribed and
\* before its Info was written, and the client got Info, then that chunk.
C8_Witness ==
    \E c \in Conns :
        /\ cl[c].early
        /\ Len(cl[c].frames) >= 2
        /\ cl[c].frames[1] = InfoFrame
        /\ cl[c].frames[2] = OutputFrame(cl[c].subAt + 1)

\* C9: the Output frames of a client are a subsequence, in order, of the
\* chunks broadcast after the client subscribed; no two clients see two
\* chunks in opposite orders; a client that lags only skips chunks.
C9_OutputsInBroadcastOrder ==
    /\ \A c \in Conns :
        IsSubseq(Outputs(c), SubSeq(bcast, cl[c].subAt + 1, Len(bcast)))
    /\ \A c1 \in Conns : \A c2 \in Conns :
        LET o1 == Outputs(c1)
            o2 == Outputs(c2)
        IN \A i \in 1..Len(o1) : \A j \in 1..Len(o1) :
             \A k \in 1..Len(o2) : \A l \in 1..Len(o2) :
                (i < j /\ o1[i] = o2[l] /\ o1[j] = o2[k]) => l < k

\* C9, witness: two clients subscribed before the first chunk; one got every
\* chunk, the other lagged, skipped the first chunk and got the later ones.
C9_Witness ==
    \E c1 \in Conns : \E c2 \in Conns :
        /\ cl[c1].subAt = 0
        /\ cl[c2].subAt = 0
        /\ Len(bcast) >= 2
        /\ Outputs(c1) = SubSeq(bcast, 1, Len(bcast))
        /\ Outputs(c2) = SubSeq(bcast, 2, Len(bcast))

\* C1 as stated: in every state the map holds at most max_sessions sessions.
C1_AtMostMaxSessions == count <= max_sessions

\* C5 as stated: once destroy_session(id) has returned, with Ok or with the
\* error of terminate, id is not a key of the map.
C5_DestroyedIdAbsent ==
    \A i \in Ids : hist.destroyedId[i] => sessions[i] = None

\* C6 as stated: for each id at most one destroy request returns
\* destroyed = true.
C6_AtMostOneDestroyPerId ==
    \A i \in Ids : hist.destroyOk[i] <= 1

\* C7 as stated, its second half: once destroy_session has returned for a
\* session, the socket file that session bound no longer exists.
C7_SocketFileGoneAfterDestroy ==
    \A o \in Objs :
        (hist.destroyed[o] /\ obj[o].sock) => sockFile[obj[o].id] # o

\* C11 as stated: a read request, and a wait_ready loop of create, returns
\* once its deadline has passed, whatever the child does.
C11_WaitReturnsAfterDeadline ==
    (/\ rd.pc # "idle"
     /\ rd.t >= (IF rd.op = "read" THEN read_deadline(rd.timeout_ms) ELSE rd.timeout_ms))
        ~> (rd.pc = "idle")

\* C12 as stated: a read that left its wait loop because the prompt detector
\* matched reports prompt_detected = true, for every view.
C12_PromptExitReported ==
    (rd.pc = "ret" /\ rd.broke = "prompt") => ReadOutput.prompt_detected

\* C13 as stated: a read with wait_idle_ms = W > 0 and no timeout_ms, on a
\* session that produces no output and does not exit, returns with
\* idle = true after W without output.
C13_IdleWaitReturnsIdle ==
    (/\ rd.pc = "ret"
     /\ rd.wait_idle_ms > 0 /\ rd.timeout_ms = 0 /\ ~rd.wait_for_prompt
     /\ rd.quiet /\ rchan = <<>> /\ ~cout.ended /\ ~term.exited)
        => (ReadOutput.idle /\ rd.t >= rd.wait_idle_ms)

\* C14 as stated: the content of a New-view read is exactly the bytes of the
\* chunks processed since the previous take or clear, in arrival order, and
\* the tracker is left empty.
C14_NewReadExactBytes ==
    (rd.pc = "ret" /\ rd.view = "New") =>
        (ReadOutput.content = term.since /\ ~ReadOutput.has_new_content)

\* C14, amended: the content of a New-view read is the rendering of those
\* bytes (invalid UTF-8 replaced by U+FFFD and, in the Plain format, escape
\* sequences stripped), and the tracker is left empty; a Screen or a
\* Scrollback read leaves the tracker as it was.
C14_NewReadRendersAndClears ==
    /\ [](rd.pc = "ret" /\ rd.view = "New" =>
            /\ ReadOutput.content = format_content(term.since, rd.format)
            /\ ~ReadOutput.has_new_content)
    /\ [][(rd.pc = "ret" /\ rd'.pc = "idle") =>
            IF rd.view = "New" THEN term'.tracker = <<>>
            ELSE term'.tracker = term.tracker]_vars

\* C14, witness: a Plain New-view read is about to return two chunks, a
\* prompt and then a line, rendered in that order.
C14_Witness ==
    /\ rd.pc = "ret" /\ rd.view = "New" /\ rd.format = "Plain"
    /\ term.since = ChunkBytes("prompt") \o ChunkBytes("line")
    /\ ReadOutput.content = <<"$", "sp", "a", "rep", "nl">>

\* C15: a create request whose limit check finds max_sessions or more
\* sessions in the map returns MaxSessionsReached(max_sessions); between the
\* check and the return the request constructs no session (no process is
\* spawned, no socket bound) and does not touch the map.
C15_AtCapacityRejected ==
    /\ [][\A t \in Tasks :
            (task[t].pc = "idle" /\ task'[t].pc \in {"c_new", "c_err"}) =>
                /\ (count >= max_sessions) <=> (task'[t].pc = "c_err")
                /\ UNCHANGED <<sessions, obj, sockFile>>]_vars
    /\ [](\A t \in Tasks :
            task[t].pc = "c_err" =>
                /\ task[t].err = MaxSessionsReached(max_sessions)
                /\ task[t].obj = None)
    /\ [][\A t \in Tasks :
            (task[t].pc = "c_err" /\ task'[t] # task[t]) =>
                /\ task'[t] = IdleTask
                /\ UNCHANGED <<sessions, obj, sockFile>>]_vars

\* C15, witness: the map holds max_sessions sessions and a create request is
\* about to return the error.
C15_Witness ==
    /\ count = max_sessions
    /\ \E t \in Tasks : task[t].pc = "c_err"

\* C16 as stated: no two sessions constructed in one run have the same id,
\* and create_session never inserts under an id that is already a key of
\* the map.
C16_SessionIdsUnique ==
    /\ [](\A o1, o2 \in Objs :
            (o1 # o2 /\ obj[o1].st # "free" /\ obj[o2].st # "free") =>
                obj[o1].id # obj[o2].id)
    /\ [][\A t \in Tasks :
            (task[t].pc = "c_insert" /\ task'[t].pc = "idle") =>
                sessions[task[t].id] = None]_vars

\* C17: when shutdown returns, the map is empty, and every session that was
\* in the map when shutdown took the map has had terminate(false) called on
\* it exactly once by shutdown and by nobody else.
C17_ShutdownTerminatesAll ==
    [][\A t \in Tasks :
        (task[t].pc = "s_drain" /\ task'[t].pc = "idle") =>
            /\ \A i \in Ids : sessions'[i] = None
            /\ \A o \in task[t].snap :
                    hist'.shut[o] = 1 /\ ~hist'.destroyed[o]]_vars

\* C17, witness: a shutdown that found a session in the map has terminated
\* it and is about to return.
C17_Witness ==
    \E t \in Tasks :
        /\ task[t].pc = "s_drain"
        /\ task[t].snap # {}
        /\ count = 0
        /\ \A o \in task[t].snap : hist.shut[o] = 1

\* the connections being served: open, with a running handle_client
Served == {c \in Conns : cl[c].pc \in {"info", "run"}}

\* C18 as stated: at every moment at most MAX_CLIENTS attach clients are
\* being served (connection open, handler running).
C18_AtMostMaxClientsServed == Cardinality(Served) <= MAX_CLIENTS

\* a step in which the handler of connection c meets an error or the end of
\* its connection: the Info write fails, the forwarder's write fails, or the
\* input loop ends
ClientFails(c) ==
    /\ cl[c].pc \in {"info", "run"}
    /\ \/ cl'[c].pc \in {"closing", "closed"}
       \/ cl[c].fwd /\ ~cl'[c].fwd

\* C19: an error on one client's connection ends only that client's
\* handler or forwarder: the records of the other connections (their
\* forwarders and positions in the broadcast), the broadcast channel, the
\* accept loop and the session's exited, error and healthy values are
\* unchanged by the step.
C19_ClientErrorIsLocal ==
    [][\A c \in Conns :
        ClientFails(c) =>
            /\ \A d \in Conns \ {c} : cl'[d] = cl[d]
            /\ bcast' = bcast
            /\ srv' = srv
            /\ sess'.exited = sess.exited /\ sess'.error = sess.error
            /\ is_healthy(sess') = is_healthy(sess)]_vars

\* C19, witness: the input loop of one client has ended on an error while
\* the accept loop runs, and another client was sent a chunk that was
\* broadcast after that error.
C19_Witness ==
    \E c \in Conns : \E d \in Conns \ {c} :
        /\ cl[c].pc = "closing" /\ cl[c].fail # None
        /\ srv = "running"
        /\ cl[d].fwd
        /\ \E i \in 1..Len(cl[d].frames) :
              /\ cl[d].frames[i].type = "Output"
              /\ cl[d].frames[i].chunk > cl[c].fail

\* C20 as stated: read_message returns ConnectionClosed whenever the stream
\* ends before a complete frame has been read, in the header or in the
\* payload.
C20_EofIsConnectionClosed ==
    (rm.pc = "done" /\ rm.eof # "none") => rm.result = Err("ConnectionClosed")


\* the grid has rows rows of cols cells each
GridShape(cells, rows, cols) ==
    /\ Len(cells) = rows
    /\ \A r \in 1..Len(cells) : Len(cells[r]) = cols
\* a cell of the grid has been written
Written(cells) ==
    \E r \in 1..Len(cells) : \E c \in 1..Len(cells[r]) : cells[r][c] # default_cell

\* C21: whatever callbacks the performer has received, the visible grid (the
\* main buffer or, while it is active, the alternate buffer) has exactly the
\* rows and columns the screen was created with, and so has the saved main
\* buffer while the alternate buffer is active.
C21_GridKeepsItsSize ==
    screen # NoScreen =>
        /\ screen.rows >= 1 /\ screen.cols >= 1
        /\ GridShape(screen.cells, screen.rows, screen.cols)
        /\ screen.main_buffer # Nothing =>
               GridShape(screen.main_buffer[1], screen.rows, screen.cols)
\* a line has scrolled off the main buffer, the alternate buffer is active,
\* and both buffers have been written to
C21_Witness ==
    /\ screen # NoScreen
    /\ scrollback.lines # <<>>
    /\ screen.alternate_active
    /\ Written(screen.main_buffer[1])
    /\ Written(screen.cells)

\* C22: whatever callbacks the performer has received, the cursor is inside
\* the screen: 0 <= row < rows and 0 <= col < cols.
C22_CursorInsideScreen ==
    screen # NoScreen =>
        /\ 0 <= screen.cursor.row /\ screen.cursor.row < screen.rows
        /\ 0 <= screen.cursor.col /\ screen.cursor.col < screen.cols
\* the cursor is in the last cell of the largest screen, a position is saved,
\* and the screen has scrolled
C22_Witness ==
    /\ screen.rows = MaxRows /\ screen.cols = MaxCols
    /\ screen.cursor.row = MaxRows - 1 /\ screen.cursor.col = MaxCols - 1
    /\ screen.cursor.saved # Nothing
    /\ scrollback.lines # <<>>

\* C23: whatever callbacks the performer has received, the right neighbour of
\* every cell of width 2 of the visible grid is a continuation cell (width 0).
C23_WideHasContinuation ==
    \A r \in 1..Len(screen.cells) :
        \A c \in 1..(Len(screen.cells[r]) - 1) :
            screen.cells[r][c].width = 2 => screen.cells[r][c + 1].width = 0

\* the callback that leaves the alternate buffer (DECRST 47, 1047 or 1049)
ExitsAlternate ==
    /\ screen.alternate_active
    /\ \E mode \in {47, 1049} : CsiPrivateMode("l", mode)
\* C24: while the alternate buffer is active no callback queues a line for the
\* scrollback or changes the scrollback or the saved main buffer, and the
\* callback that switches back makes the saved main grid the visible one: the
\* scrollback and the grid are then what they were before the switch.
C24_AlternateLeavesMainAlone ==
    [][screen.alternate_active =>
          /\ scrollback' = scrollback
          /\ screen'.scrolled_lines = <<>> /\ screen.scrolled_lines = <<>>
          /\ screen'.alternate_active => screen'.main_buffer = screen.main_buffer
          /\ ExitsAlternate => screen'.cells = screen.main_buffer[1]]_vars
\* the alternate buffer scrolled, and the screen is back on the main buffer,
\* which had been written to
C24_Witness ==
    /\ emu.alt_scrolled
    /\ ~screen.alternate_active
    /\ Written(screen.cells)

\* the last n elements of a sequence
LastOf(q, n) == SubSeq(q, Len(q) - n + 1, Len(q))

\* C25: after K pushes of one line each to a scrollback buffer of capacity M,
\* for every M >= 0, the buffer holds min(K, M) lines, and they are the
\* min(K, M) lines pushed last, oldest first.
C25_KeepsMostRecent ==
    sbuf # NoBuffer =>
        /\ Len(sbuf.lines) = Min(Len(pushed), sbuf.max_lines)
        /\ sbuf.lines = LastOf(pushed, Min(Len(pushed), sbuf.max_lines))

\* the characters of a string
Range(q) == {q[i] : i \in 1..Len(q)}

NonEmptyLines(content) ==
    {i \in 1..Len(lines(content)) : trim_end(lines(content)[i]) # <<>>}
\* C27: detect(content) is true only if the last non-empty line of content
\* matches the prompt pattern: a prompt line followed by a later non-empty
\* line that does not match yields false.
C27_LastLineDecides ==
    det.pc = "done" /\ det.detected =>
        \E i \in NonEmptyLines(det.content) :
            /\ \A j \in NonEmptyLines(det.content) : j <= i
            /\ is_match(trim_end(lines(det.content)[i]))

\* the xterm sequence of a key with modifier parameter m, from the key's base
\* sequence ESC [ X, ESC O X or ESC [ N ~: ESC [ 1 ; m X or ESC [ N ; m ~
Parameterized(base, m) ==
    <<ESC, 91>>
    \o (IF Len(base) > 3 THEN SubSeq(base, 3, Len(base) - 1) ELSE <<49>>)
    \o <<59, 48 + m, base[Len(base)]>>
\* C28: for a special key that supports modifiers and any of shift, alt, ctrl
\* set, encode gives the key's parameterized sequence with the modifier
\* parameter 1 + shift + 2 * alt + 4 * ctrl; with no modifier set, and for a
\* key without a modifier variant, it gives the key's base sequence.
C28_ModifierParameter ==
    enc.pc = "done" /\ enc.input.key # "NoKey" =>
        LET k == enc.input
            m == 1 + (IF k.shift THEN 1 ELSE 0) + 2 * (IF k.alt THEN 1 ELSE 0)
                 + 4 * (IF k.ctrl THEN 1 ELSE 0)
        IN /\ enc.result.ok
           /\ enc.result.bytes =
                  IF supports_modifiers(k.key) /\ (k.shift \/ k.alt \/ k.ctrl)
                  THEN Parameterized(base_sequence(k.key), m)
                  ELSE base_sequence(k.key)
\* Ctrl+Shift+F5 encoded as ESC [ 1 5 ; 6 ~
C28_Witness ==
    /\ enc.pc = "done"
    /\ enc.input.key = "F5" /\ enc.input.ctrl /\ enc.input.shift /\ ~enc.input.alt
    /\ enc.result.bytes = <<ESC, 91, 49, 53, 59, 54, 126>>


\* the handlers that hold the Mutex of session s, by where they are
InSession(s) ==
    {t \in Handlers : hd[t].pc \in {"u_held", "u_chunk", "d_wait", "s_wait"}
                      /\ hd[t].id = s}

\* C29: drains and reads of one session exclude each other: no handler has
\* read the state of a session while a chunk was being processed, a chunk is
\* only being processed by the handler that holds the session's lock, and at
\* most one handler is inside a session at a time.
C29_DrainsExcludeReads ==
    /\ ~torn
    /\ \A s \in LockSessions :
          /\ Cardinality(InSession(s)) <= 1
          /\ \A t \in InSession(s) : lsess[s].holder = t
          /\ lsess[s].mid =>
                \E t \in InSession(s) : hd[t].pc = "u_chunk"

\* one handler is in the middle of a chunk of a session, another one waits
\* for the lock of the same session
C29_Witness ==
    \E t, u \in Handlers :
        /\ hd[t].pc = "u_chunk"
        /\ hd[u].pc \in {"u_lock", "d_lock", "l_scan", "k_scan", "s_drain"}
        /\ hd[t].id = hd[u].id \/ hd[t].id \in hd[u].todo
        /\ lsess[hd[t].id].mid

HoldsSession(t) == \E s \in LockSessions : lsess[s].holder = t
HoldsMap(t) == lmap.w = t \/ t \in lmap.r
\* the next step of handler t takes the map lock
WantsMap(t) == hd[t].pc \in {"u_get", "c_insert", "k_remove"}

\* the handlers that hold a lock the next step of handler t needs
WaitsFor(t) ==
    CASE hd[t].pc = "u_get" -> {lmap.w} \ {None}
      [] hd[t].pc \in {"c_insert", "k_remove"} -> ({lmap.w} \cup lmap.r) \ {None}
      [] hd[t].pc \in {"u_lock", "d_lock"} -> {lsess[hd[t].id].holder} \ {None}
      [] hd[t].pc \in {"l_scan", "k_scan", "s_drain"} ->
            {lsess[s].holder : s \in hd[t].todo} \ {None}
      [] OTHER -> {}

\* the handlers t waits for, directly or through n others at most
RECURSIVE WaitsThrough(_, _)
WaitsThrough(t, n) ==
    IF n = 0 THEN WaitsFor(t)
    ELSE WaitsFor(t) \cup UNION {WaitsThrough(u, n - 1) : u \in WaitsFor(t)}

\* C30: no interleaving of the handlers deadlocks: a handler that holds a
\* session lock is not about to take the map lock, every lock is held by a
\* handler that is under way, no handler waits for itself through the
\* others, and a handler that waits for nobody can take its next step
\* (unless it waits in child.wait() for a child to exit).
C30_NoDeadlock ==
    /\ \A t \in Handlers : HoldsSession(t) => ~WantsMap(t)
    /\ \A t \in Handlers : HoldsSession(t) \/ HoldsMap(t) => hd[t].pc # "idle"
    /\ \A t \in Handlers : t \notin WaitsThrough(t, NumHandlers)
    /\ \A t \in Handlers :
          hd[t].pc \notin {"idle", "d_wait", "s_wait"} /\ WaitsFor(t) = {} =>
              ENABLED Continue(t)

\* shutdown holds the map's write lock and waits for the lock of a session
\* that a handler in the middle of a drain holds
C30_Witness ==
    \E t, u \in Handlers :
        /\ hd[t].pc = "s_drain"
        /\ HoldsMap(t)
        /\ hd[u].pc = "u_chunk"
        /\ hd[u].id \in hd[t].todo
        /\ lsess[hd[u].id].holder = u


\* the position a cursor-motion CSI asks for, clamped to the grid, computed
\* without a width
Requested(action, p, s) ==
    LET n == param(p, 1)
        last_row == saturating_sub(s.rows, 1)
        last_col == saturating_sub(s.cols, 1)
        cu == s.cursor
    IN CASE action = "A" -> [row |-> Max(cu.row - n, 0), col |-> cu.col]
         [] action = "B" -> [row |-> Min(cu.row + n, last_row), col |-> cu.col]
         [] action = "C" -> [row |-> cu.row, col |-> Min(cu.col + n, last_col)]
         [] action = "D" -> [row |-> cu.row, col |-> Max(cu.col - n, 0)]
         [] action = "E" -> [row |-> Min(cu.row + n, last_row), col |-> 0]
         [] action = "F" -> [row |-> Max(cu.row - n, 0), col |-> 0]
         [] action = "G" -> [row |-> cu.row, col |-> Min(n - 1, last_col)]
         [] OTHER -> [row |-> Min(n - 1, last_row), col |-> cu.col]

\* C38: every cursor-motion CSI, with every parameter up to 65535, leaves the
\* cursor on the requested position clamped to the grid, and its 16-bit
\* arithmetic neither wraps around nor traps.
C38_MotionClampsToGrid ==
    [][/\ \A action \in CursorActions, p \in ParamInputs :
              CsiCursor(action, p) =>
                  /\ ~emu'.panicked
                  /\ screen'.cursor.row = Requested(action, p, screen).row
                  /\ screen'.cursor.col = Requested(action, p, screen).col
       /\ \A p1 \in ParamInputs, p2 \in ParamInputs \cup {None} :
              CsiPosition(p1, p2) =>
                  /\ screen'.cursor.row = Min(param(p1, 1) - 1, screen.rows - 1)
                  /\ screen'.cursor.col = Min(param(p2, 1) - 1, screen.cols - 1)
      ]_vars


\* C39: ESC M with the cursor on row 0 shifts the grid down by one line (a
\* blank line on top, the bottom line gone) and leaves the cursor on row 0;
\* on any other row it moves the cursor up one row and leaves the grid alone.
C39_ReverseIndex ==
    [][EscDispatch("M") =>
          IF screen.cursor.row = 0
          THEN /\ screen'.cells =
                      <<blank_row(screen.cols)>> \o
                      SubSeq(screen.cells, 1, screen.rows - 1)
               /\ screen'.cursor.row = 0
               /\ screen'.cursor.col = screen.cursor.col
          ELSE /\ screen'.cells = screen.cells
               /\ screen'.cursor.row = screen.cursor.row - 1
               /\ screen'.cursor.col = screen.cursor.col]_vars

\* C40: DECSET 1049 from the main buffer, callbacks that keep the alternate
\* buffer active, then DECRST 1049: the cursor is where it was immediately
\* before the DECSET 1049.
C40_CursorBackAfter1049 ==
    emu.back # Nothing =>
        /\ ~screen.alternate_active
        /\ <<screen.cursor.row, screen.cursor.col>> = emu.back[1]
\* DECRST 1049 has brought the cursor back to a position that is not the
\* origin, where the alternate buffer had put it
C40_Witness ==
    /\ emu.back # Nothing
    /\ emu.back[1] # <<0, 0>>
    /\ emu.fed >= 3


\* C35: the messages a reader thread puts on its channel are Data messages,
\* each a chunk it read (so none is empty), in the order read, followed by at
\* most one Eof or Error; the thread has stopped once Eof or Error is sent,
\* it stops at a failed send and when it finds the shutdown flag set at the
\* top of its loop, and a stopped thread sends nothing.
C35_ReaderSequence ==
    /\ [](LET sent == reader.sent
          IN /\ \A i \in 1..Len(sent) :
                    \/ sent[i].type = "Data" /\ sent[i].chunk = i /\ i <= Len(wire)
                    \/ sent[i].type # "Data" /\ i = Len(sent) /\ reader.st = "done")
    /\ [][/\ reader.st = "done" =>
                 /\ reader'.st = "done" /\ reader'.sent = reader.sent
                 /\ chan' = chan \/ (chan # <<>> /\ chan' = Tail(chan))
          /\ reader.st = "sending" /\ h.dropped /\ reader' # reader =>
                 reader'.st = "done" /\ reader'.sent = reader.sent
          /\ reader.st = "loop" /\ reader.shutdown /\ reader' # reader =>
                 reader'.st = "done" /\ reader'.sent = reader.sent]_vars
\* the thread has sent Data and then Eof or Error, was told to shut down and
\* has stopped
C35_Witness ==
    /\ Len(reader.sent) >= 2
    /\ reader.sent[Len(reader.sent)].type # "Data"
    /\ reader.st = "done"
    /\ reader.shutdown


\* C37: for every Message whose payload is at most 16 MiB, the frame encode
\* gives is the type byte, the payload length as 4 big-endian bytes, then
\* the payload, and decode on its type byte and payload gives the message
\* again, Close with an empty reason and Resize with any rows and cols
\* included.
C37_EncodeDecodeRoundTrip ==
    /\ cod.pc # "idle" =>
          /\ cod.frame.ok
          /\ cod.frame.is[1] = msg_type(cod.m)
          /\ from_be_bytes(SubSeq(cod.frame.is, 2, 5)) = Len(cod.frame.is) - HEADER_SIZE
          /\ SubSeq(cod.frame.is, HEADER_SIZE + 1, Len(cod.frame.is))
                 = encode_payload(cod.m)
    /\ cod.pc = "decoded" => cod.result.ok /\ cod.result.is = cod.m


\* C31: every destroy_session and every shutdown call eventually returns,
\* with force or without, also when the child ignores SIGTERM; shutdown does
\* not keep the map's write lock for ever.
C31_TerminationReturns ==
    /\ \A t \in Handlers :
          hd[t].pc \in {"d_lock", "d_wait", "s_drain", "s_wait"} ~> hd[t].pc = "idle"
    /\ \A t \in Handlers : lmap.w = t ~> lmap.w = None


\* C32: when the socket server is shut down, every client connected at that
\* moment is eventually sent a Close frame and its connection is closed (the
\* handler writes the Close frame as its last step before the connection is
\* dropped).
C32_ShutdownClosesClients ==
    \A c \in Conns :
        (srv = "stopped" /\ cl[c].pc \in {"info", "run", "closing"})
            ~> cl[c].pc = "closed"


\* the rendered screen of the session once n chunks of output (each with
\* something to show) have been processed
rendered_screen(n) == [i \in 1..n |-> i]

\* C36: the screen field of the Info frame sent to a newly attached client is
\* the rendered screen content of the session at the time the client
\* connected.
C36_InfoCarriesScreen ==
    \A c \in Conns :
        cl[c].pc = "run" /\ cl[c].fwd =>
            /\ cl[c].frames[1].type = "Info"
            /\ cl[c].frames[1].screen = rendered_screen(cl[c].subAt)


\* the bytes of the PTY input that come from attach clients
SocketBytes == SelectSeq(ptyIn, LAMBDA b : b[1] \in SocketWrites)

\* the first n bytes of the Input payload w
PayloadPrefix(w, n) == [i \in 1..n |-> <<w, i>>]

RECURSIVE Payloads_of(_)
\* the payloads of the Input frames ws, whole and in order
Payloads_of(ws) ==
    IF ws = <<>> THEN <<>>
    ELSE PayloadPrefix(Head(ws), PayloadLen) \o Payloads_of(Tail(ws))

\* C33: Input frames reach the PTY through drain_socket_input only, each once
\* and in the order the server queued them, and none that was taken from the
\* channel is lost, also when a PTY write fails: the client bytes in the PTY
\* are the payloads of the inputs taken so far, the last one up to the byte
\* being written while its write is under way.
C33_InputsWrittenOnce ==
    LET n == Len(drn.taken) IN
    SocketBytes =
        IF drn.pc \in {"lock", "write"}
        THEN Payloads_of(SubSeq(drn.taken, 1, n - 1)) \o PayloadPrefix(drn.cur, drn.pos)
        ELSE Payloads_of(drn.taken)


RECURSIVE WholeFrames(_)
\* s is a concatenation of complete frames, the last of which may still be
\* under way
WholeFrames(s) ==
    IF s = <<>> THEN TRUE
    ELSE LET n == IF Len(s) < FrameLen THEN Len(s) ELSE FrameLen
         IN  /\ \A i \in 1..n : s[i] = <<s[1][1], s[1][2], i>>
             /\ WholeFrames(SubSeq(s, n + 1, Len(s)))

\* C34: the bytes the server writes to one attach client are a concatenation
\* of complete frames: no Output frame is cut short, nor followed before its
\* end by the final Close frame, when the handler ends and aborts the output
\* forwarder while the forwarder is writing.
C34_StreamOfWholeFrames ==
    /\ WholeFrames(hc.out)
    /\ hc.pc = "done" /\ hc.task = "ended" /\ ~hc.broken =>
           Len(hc.out) % FrameLen = 0

=============================================================================
